---- MODULE Spec2Model ----
(***************************************************************************)
(* NavaCode-Lang: the parser (src/parser.rs), the resolver                 *)
(* (src/resolver.rs, src/symbols_table.rs, src/types.rs), the interpreter  *)
(* (src/interpreter.rs, src/interpreter/builtin.rs) and the pipeline that  *)
(* chains them (src/compiler.rs, src/main.rs).                             *)
(*                                                                         *)
(* Text is a sequence of one-character strings: the identifier  foo  is    *)
(* <<"f","o","o">>, the number literal 12 is <<"1","2">>.  A token is a    *)
(* record [kind, value]; source positions are not modelled.                *)
(*                                                                         *)
(* The parser is a family of recursive operators over a parser record      *)
(* p = [pos, recovery_states, consumed_tokens]; each returns a result      *)
(* [status, val, p] with status "Ok", "Err" (val is the diagnostic) or     *)
(* "Panic" (an unwrap() that failed).  The resolver and the interpreter    *)
(* are small-step machines over the control stack  kont , which plays the  *)
(* part of the Rust call stack of the AstExplorer traversal.               *)
(***************************************************************************)
EXTENDS Integers, Sequences, FiniteSets, TLC

VARIABLES
    lexer,            \* Lexer: [input, position, is_eof_encountered]
    tokens,           \* the token stream the lexer hands to the parser
    overflow_checks,  \* build profile: TRUE = debug (overflow panics), FALSE = release (wraps)
    stage,            \* "parse", "resolve", "interpret", "compile_failed", "finished", "panicked"
    parser,           \* Parser: [pos, recovery_states, consumed_tokens]
    ast,              \* Ast.statements built by Parser::parse
    diagnostic,       \* the Diagnostics local of Parser::parse
    resolver,         \* Resolver: [symbols_table, current_scope_id, diagnostics, ...]
    interpreter,      \* Interpreter: [accumulator, scopes, functions]
    kont,             \* control stack of the running AstExplorer traversal
    panic,            \* message of the panic that ended the run, or NoPanic
    trace             \* history: loop-variable value at each entry of a for body

vars == <<lexer, tokens, overflow_checks, stage, parser, ast, diagnostic, resolver,
          interpreter, kont, panic, trace>>

--------------------------------------------------------------------------
(* Bounds of the model *)

\* width of the scaled-down machine integer standing for i64
IntBits == 6

\* a for loop is followed for at most this many body entries
MaxTrace == 8

\* at most this many runtime scopes are live at once
MaxScopes == 6

IntMax == 2^(IntBits - 1) - 1
IntMin == -(2^(IntBits - 1))

\* two's-complement wrap of an out-of-range result
Wrap(n) == ((n - IntMin) % (2^IntBits)) + IntMin

InRange(n) == n >= IntMin /\ n <= IntMax

NoneV == [kind |-> "None"]

Last(s) == s[Len(s)]

RECURSIVE SeqToSet(_)
SeqToSet(s) == IF s = <<>> THEN {} ELSE {Head(s)} \cup SeqToSet(Tail(s))

--------------------------------------------------------------------------
(* Tokens (src/lexer.rs) *)

Tok(kind, value) == [kind |-> kind, value |-> value]

DigitChars == <<"0", "1", "2", "3", "4", "5", "6", "7", "8", "9">>

DigitValue(c) == CHOOSE d \in 0..9 : DigitChars[d + 1] = c

RECURSIVE Digits(_)
Digits(n) == IF n < 10 THEN <<DigitChars[n + 1]>>
             ELSE Append(Digits(n \div 10), DigitChars[(n % 10) + 1])

\* str::parse::<i64> of a digit string: -1 stands for Err, the digits do not
\* fit the integer width
RECURSIVE parse_i64(_, _)
parse_i64(chars, acc) ==
    IF chars = <<>> THEN acc
    ELSE LET next == acc * 10 + DigitValue(Head(chars)) IN
         IF next > IntMax THEN -1 ELSE parse_i64(Tail(chars), next)

TNum(n)  == Tok("Number", Digits(n))
TId(c)   == Tok("Identifier", <<c>>)
TLet     == Tok("LetKeyword", <<"l","e","t">>)
TBe      == Tok("BeKeyword", <<"b","e">>)
TSet     == Tok("SetKeyword", <<"s","e","t">>)
TTo      == Tok("ToKeyword", <<"t","o">>)
TIf      == Tok("IfKeyword", <<"i","f">>)
TThen    == Tok("ThenKeyword", <<"t","h","e","n">>)
TElse    == Tok("ElseKeyword", <<"e","l","s","e">>)
TEnd     == Tok("EndKeyword", <<"e","n","d">>)
TWhile   == Tok("WhileKeyword", <<"w","h","i","l","e">>)
TDo      == Tok("DoKeyword", <<"d","o">>)
TFor     == Tok("ForKeyword", <<"f","o","r">>)
TFrom    == Tok("FromKeyword", <<"f","r","o","m">>)
TStep    == Tok("StepKeyword", <<"s","t","e","p">>)
TDefine  == Tok("DefineKeyword", <<"d","e","f","i","n","e">>)
TFunction == Tok("FunctionKeyword", <<"f","u","n","c","t","i","o","n">>)
TWith    == Tok("WithKeyword", <<"w","i","t","h">>)
TAs      == Tok("AsKeyword", <<"a","s">>)
TReturn  == Tok("ReturnKeyword", <<"r","e","t","u","r","n">>)
TTrue    == Tok("TrueKeyword", <<"t","r","u","e">>)
TFalse   == Tok("FalseKeyword", <<"f","a","l","s","e">>)
TAnd     == Tok("AndKeyword", <<"a","n","d">>)
TOr      == Tok("OrKeyword", <<"o","r">>)
TNot     == Tok("NotKeyword", <<"n","o","t">>)
TPlus    == Tok("Plus", <<"+">>)
TMinus   == Tok("Minus", <<"-">>)
TStar    == Tok("Star", <<"*">>)
TSlash   == Tok("Slash", <<"/">>)
TPercent == Tok("Percent", <<"%">>)
TEqEq    == Tok("EqualEqual", <<"=","=">>)
TNotEq   == Tok("NotEqual", <<"!","=">>)
TLt      == Tok("LessThan", <<"<">>)
TGt      == Tok("GreaterThan", <<">">>)
TLe      == Tok("LessThanOrEqual", <<"<","=">>)
TGe      == Tok("GreaterThanOrEqual", <<">","=">>)
TBang    == Tok("Bang", <<"!">>)
TLParen  == Tok("LeftParen", <<"(">>)
TRParen  == Tok("RightParen", <<")">>)
TComma   == Tok("Comma", <<",">>)
TUnknown == Tok("Unknown", <<"@">>)
TEof     == Tok("EndOfFile", <<"E","O","F">>)

--------------------------------------------------------------------------
(* Lexer (src/lexer.rs).  A lexer is [input, position, is_eof_encountered] *)
(* with position the number of characters consumed; line and column are   *)
(* not modelled.  A token function returns [token, lexer], token NoneV    *)
(* where the code returns None.                                            *)

\* Option<char>::None and Option<TokenKind>::None
NoChar == ""
NoKind == "None"

OPERATORS ==
    <<<< <<"+">>, "Plus" >>,
      << <<"-">>, "Minus" >>,
      << <<"*">>, "Star" >>,
      << <<"/">>, "Slash" >>,
      << <<"=", "=">>, "EqualEqual" >>,
      << <<"!", "=">>, "NotEqual" >>,
      << <<"<">>, "LessThan" >>,
      << <<">">>, "GreaterThan" >>,
      << <<"<", "=">>, "LessThanOrEqual" >>,
      << <<">", "=">>, "GreaterThanOrEqual" >>,
      << <<"!">>, "Bang" >> >>

\* char::is_alphabetic, char::is_whitespace on the characters of the model
AlphabeticChars ==
    {"a", "b", "c", "d", "e", "f", "g", "h", "i", "j", "k", "l", "m", "n", "o",
     "p", "q", "r", "s", "t", "u", "v", "w", "x", "y", "z"}
WhitespaceChars == {" "}

is_ascii_digit(c) == \E d \in 1..10 : DigitChars[d] = c
is_alphabetic(c) == c \in AlphabeticChars
is_whitespace(c) == c \in WhitespaceChars

\* str::starts_with
starts_with(s, prefix) ==
    Len(prefix) <= Len(s) /\ SubSeq(s, 1, Len(prefix)) = prefix

Lexer_new(input) ==
    [input |-> input, position |-> 0, is_eof_encountered |-> FALSE]

\* LexerInputBuffer::peek
Lexer_peek(l) ==
    IF l.position < Len(l.input) THEN l.input[l.position + 1] ELSE NoChar

\* Lexer::advance: the lexer after the character (Lexer_peek is the character)
Lexer_advance(l) == [l EXCEPT !.position = @ + 1]

\* unadvance that rewinds nothing
unadvance_nothing(l, count) == l

\* Lexer::unadvance with LexerInputBuffer::rewind
unadvance(l, count) ==
    IF count = 0 THEN l
    ELSE IF count > l.position THEN [l EXCEPT !.position = 0]
    ELSE [l EXCEPT !.position = @ - count]

RECURSIVE handle_whitespaces(_)
handle_whitespaces(l) ==
    IF Lexer_peek(l) # NoChar /\ is_whitespace(Lexer_peek(l))
    THEN handle_whitespaces(Lexer_advance(l))
    ELSE l

\* the while loop of number_token: the digits read and the lexer after them
RECURSIVE number_loop(_, _)
number_loop(l, number) ==
    IF Lexer_peek(l) # NoChar /\ is_ascii_digit(Lexer_peek(l))
    THEN number_loop(Lexer_advance(l), Append(number, Lexer_peek(l)))
    ELSE [token |-> Tok("Number", number), lexer |-> l]

number_token(l) == number_loop(l, <<>>)

match_operator(operator) ==
    IF \E k \in 1..Len(OPERATORS) : OPERATORS[k][1] = operator
    THEN OPERATORS[CHOOSE k \in 1..Len(OPERATORS) : OPERATORS[k][1] = operator][2]
    ELSE NoKind

\* the while-let loop of operator_token: the locals at its exit
RECURSIVE operator_loop(_, _, _, _, _)
operator_loop(l, op, last_valid_kind, last_valid_len, chars_consumed) ==
    IF Lexer_peek(l) = NoChar
    THEN [lexer |-> l, op |-> op, last_valid_kind |-> last_valid_kind,
          last_valid_len |-> last_valid_len, chars_consumed |-> chars_consumed]
    ELSE LET op1 == Append(op, Lexer_peek(l))
             matched == match_operator(op1) # NoKind
             kind1 == IF matched THEN match_operator(op1) ELSE last_valid_kind
             len1 == IF matched THEN Len(op1) ELSE last_valid_len IN
         IF \E k \in 1..Len(OPERATORS) : starts_with(OPERATORS[k][1], op1)
         THEN operator_loop(Lexer_advance(l), op1, kind1, len1, chars_consumed + 1)
         ELSE [lexer |-> l, op |-> op1, last_valid_kind |-> kind1,
               last_valid_len |-> len1, chars_consumed |-> chars_consumed]

operator_token(l) ==
    LET x == operator_loop(l, <<>>, NoKind, 0, 0) IN
    IF x.last_valid_kind # NoKind
    THEN [token |-> Tok(x.last_valid_kind, SubSeq(x.op, 1, x.last_valid_len)),
          lexer |-> IF x.last_valid_len < x.chars_consumed
                    THEN unadvance(x.lexer, x.chars_consumed - x.last_valid_len)
                    ELSE x.lexer]
    ELSE [token |-> NoneV, lexer |-> unadvance(x.lexer, x.chars_consumed)]

match_symbol(c) ==
    CASE c = "(" -> "LeftParen"
      [] c = ")" -> "RightParen"
      [] OTHER -> NoKind

symbol_token(l) ==
    IF Lexer_peek(l) # NoChar /\ match_symbol(Lexer_peek(l)) # NoKind
    THEN [token |-> Tok(match_symbol(Lexer_peek(l)), <<Lexer_peek(l)>>),
          lexer |-> Lexer_advance(l)]
    ELSE [token |-> NoneV, lexer |-> l]

match_identifier_or_keyword(identifier) ==
    CASE identifier = <<"l","e","t">> -> "LetKeyword"
      [] identifier = <<"b","e">> -> "BeKeyword"
      [] identifier = <<"a","n","d">> -> "AndKeyword"
      [] identifier = <<"o","r">> -> "OrKeyword"
      [] identifier = <<"n","o","t">> -> "NotKeyword"
      [] identifier = <<"s","e","t">> -> "SetKeyword"
      [] identifier = <<"t","o">> -> "ToKeyword"
      [] identifier = <<"i","f">> -> "IfKeyword"
      [] identifier = <<"t","h","e","n">> -> "ThenKeyword"
      [] identifier = <<"e","n","d">> -> "EndKeyword"
      [] identifier = <<"e","l","s","e">> -> "ElseKeyword"
      [] identifier = <<"t","r","u","e">> -> "TrueKeyword"
      [] identifier = <<"f","a","l","s","e">> -> "FalseKeyword"
      [] OTHER -> "Identifier"

\* the while loop of identifier_token
RECURSIVE identifier_loop(_, _)
identifier_loop(l, identifier) ==
    IF Lexer_peek(l) # NoChar
       /\ (is_alphabetic(Lexer_peek(l)) \/ is_ascii_digit(Lexer_peek(l))
           \/ Lexer_peek(l) = "_")
    THEN identifier_loop(Lexer_advance(l), Append(identifier, Lexer_peek(l)))
    ELSE [token |-> Tok(match_identifier_or_keyword(identifier), identifier),
          lexer |-> l]

identifier_token(l) ==
    IF Lexer_peek(l) # NoChar /\ (is_alphabetic(Lexer_peek(l)) \/ Lexer_peek(l) = "_")
    THEN identifier_loop(Lexer_advance(l), <<Lexer_peek(l)>>)
    ELSE [token |-> NoneV, lexer |-> l]

is_char_known(c) ==
    \/ is_ascii_digit(c)
    \/ is_alphabetic(c)
    \/ is_whitespace(c)
    \/ match_symbol(c) # NoKind
    \/ \E k \in 1..Len(OPERATORS) : OPERATORS[k][1] = <<c>>

\* the while-let loop of unknown_token
RECURSIVE unknown_loop(_, _)
unknown_loop(l, unknown) ==
    IF Lexer_peek(l) # NoChar /\ ~is_char_known(Lexer_peek(l))
    THEN unknown_loop(Lexer_advance(l), Append(unknown, Lexer_peek(l)))
    ELSE [token |-> IF unknown # <<>> THEN Tok("Unknown", unknown) ELSE NoneV,
          lexer |-> l]

unknown_token(l) == unknown_loop(l, <<>>)

end_of_file_token(l) ==
    IF l.is_eof_encountered THEN [token |-> NoneV, lexer |-> l]
    ELSE [token |-> Tok("EndOfFile", <<"E","O","F">>),
          lexer |-> [l EXCEPT !.is_eof_encountered = TRUE]]

\* operator_token().or_else(symbol_token).or_else(identifier_token)
\*     .or_else(unknown_token)
or_else_tokens(l) ==
    LET r1 == operator_token(l)
        r2 == symbol_token(r1.lexer)
        r3 == identifier_token(r2.lexer) IN
    IF r1.token # NoneV THEN r1
    ELSE IF r2.token # NoneV THEN r2
    ELSE IF r3.token # NoneV THEN r3
    ELSE unknown_token(r3.lexer)

Lexer_next_token(l) ==
    LET l1 == handle_whitespaces(l) IN
    IF Lexer_peek(l1) = NoChar THEN end_of_file_token(l1)
    ELSE IF is_ascii_digit(Lexer_peek(l1)) THEN number_token(l1)
    ELSE or_else_tokens(l1)

--------------------------------------------------------------------------
(* Expression operators (src/ast/expression.rs) *)

BinaryTokenKinds ==
    {"Plus", "Minus", "Star", "Slash", "Percent", "EqualEqual", "NotEqual",
     "LessThan", "GreaterThan", "LessThanOrEqual", "GreaterThanOrEqual",
     "AndKeyword", "OrKeyword"}

\* TryFrom<TokenKind> for BinaryOperator (defined on BinaryTokenKinds)
BinaryOperator_try_from(kind) ==
    CASE kind = "Plus" -> "Add"
      [] kind = "Minus" -> "Subtract"
      [] kind = "Star" -> "Multiply"
      [] kind = "Slash" -> "Divide"
      [] kind = "Percent" -> "Modulus"
      [] kind = "EqualEqual" -> "Equal"
      [] kind = "NotEqual" -> "NotEqual"
      [] kind = "LessThan" -> "LessThan"
      [] kind = "GreaterThan" -> "GreaterThan"
      [] kind = "LessThanOrEqual" -> "LessThanOrEqual"
      [] kind = "GreaterThanOrEqual" -> "GreaterThanOrEqual"
      [] kind = "AndKeyword" -> "And"
      [] kind = "OrKeyword" -> "Or"

\* precedence with the additive operators above the multiplicative ones
precedence_additive_first(op) ==
    CASE op = "Or" -> 0
      [] op = "And" -> 1
      [] op \in {"Equal", "NotEqual", "LessThan", "GreaterThan",
                 "LessThanOrEqual", "GreaterThanOrEqual"} -> 2
      [] op \in {"Add", "Subtract"} -> 4
      [] op \in {"Multiply", "Divide", "Modulus"} -> 3

precedence(op) ==
    CASE op = "Or" -> 0
      [] op = "And" -> 1
      [] op \in {"Equal", "NotEqual", "LessThan", "GreaterThan",
                 "LessThanOrEqual", "GreaterThanOrEqual"} -> 2
      [] op \in {"Add", "Subtract"} -> 3
      [] op \in {"Multiply", "Divide", "Modulus"} -> 4

UnaryTokenKinds == {"Minus", "NotKeyword", "Bang"}

\* TryFrom<TokenKind> for UnaryOperator (defined on UnaryTokenKinds)
UnaryOperator_try_from(kind) ==
    IF kind = "Minus" THEN "Negate" ELSE "Not"

--------------------------------------------------------------------------
(* AST nodes (src/ast/expression.rs, src/ast/statement.rs, as built by    *)
(* src/parser.rs)                                                          *)

Number(n) == [kind |-> "Number", value |-> n]
Boolean(b) == [kind |-> "Boolean", value |-> b]
Variable(name) == [kind |-> "Variable", name |-> name]
BinaryOperation(l, op, r) ==
    [kind |-> "BinaryOperation", left |-> l, operator |-> op, right |-> r]
UnaryOperation(op, e) == [kind |-> "UnaryOperation", operator |-> op, operand |-> e]
Grouped(e) == [kind |-> "Grouped", expression |-> e]
FunctionCall(name, args) ==
    [kind |-> "FunctionCall", function_name |-> name, arguments |-> args]

VariableDeclaration(name, value) ==
    [kind |-> "VariableDeclaration", name |-> name, value |-> value]
VariableAssignment(name, value) ==
    [kind |-> "VariableAssignment", name |-> name, value |-> value]
IfStatement(c, t, e) ==
    [kind |-> "IfStatement", condition |-> c, then_branch |-> t, else_branch |-> e]
BlockStatement(stmts) == [kind |-> "BlockStatement", statements |-> stmts]
WhileStatement(c, b) == [kind |-> "WhileStatement", condition |-> c, body |-> b]
ForStatement(v, s, e, k, b) ==
    [kind |-> "ForStatement", variable |-> v, start |-> s, end |-> e,
     step |-> k, body |-> b]
FunctionDefinition(name, args, body) ==
    [kind |-> "FunctionDefinition", name |-> name, arguments |-> args, body |-> body]
ReturnStatement(e) == [kind |-> "ReturnStatement", expression |-> e]

--------------------------------------------------------------------------
(* Diagnostics (src/diagnostic.rs) *)

unexpected_token(expected, found) ==
    [kind |-> "UnexpectedToken", expected |-> expected, found |-> found.value]
unexpected_else_after_end == [kind |-> "UnexpectedElseAfterEnd"]
unexpected_end_token == [kind |-> "UnexpectedEndToken"]
unexpected_else_token == [kind |-> "UnexpectedElseToken"]
variable_redefinition(name) == [kind |-> "VariableRedefinition", identifier |-> name]
undefined_variable(name) == [kind |-> "UndefinedVariable", identifier |-> name]
\* function_arguments_mismatch with the two counts exchanged
function_arguments_mismatch_exchanged(name, expected, found) ==
    [kind |-> "FunctionArgumentsMismatch", function_name |-> name,
     expected |-> found, found |-> expected]

function_arguments_mismatch(name, expected, found) ==
    [kind |-> "FunctionArgumentsMismatch", function_name |-> name,
     expected |-> expected, found |-> found]
undefined_function(name) == [kind |-> "UndefinedFunction", function_name |-> name]
return_outside_function == [kind |-> "ReturnOutsideFunction"]
variable_type_mismatch(name, expected, found) ==
    [kind |-> "VariableTypeMismatch", identifier |-> name,
     expected_type |-> expected, found_type |-> found]
expression_type_mismatch(expected, found) ==
    [kind |-> "ExpressionTypeMismatch", expected_type |-> expected, found_type |-> found]
incompatible_binary_operation(l, r, op) ==
    [kind |-> "IncompatibleBinaryOperation", left_type |-> l, right_type |-> r,
     operator |-> op]
incompatible_unary_operation(t, op) ==
    [kind |-> "IncompatibleUnaryOperation", operand_type |-> t, operator |-> op]

\* has_errors that finds none
has_no_errors(diags) == FALSE

\* Diagnostics::has_errors: every diagnostic is a DiagnosticType::Error
has_errors(diags) == \E i \in 1..Len(diags) : TRUE

--------------------------------------------------------------------------
(* Parser (src/parser.rs) *)

RECOVERY_END_POINTS ==
    <<"LetKeyword", "SetKeyword", "IfKeyword", "WhileKeyword", "ForKeyword",
      "EndKeyword", "ElseKeyword", "DefineKeyword">>

Ok(v, p) == [status |-> "Ok", val |-> v, p |-> p]
Err(d, p) == [status |-> "Err", val |-> d, p |-> p]
Panicked(p) == [status |-> "Panic", val |-> NoneV, p |-> p]

\* Parser::new
Parser_new == [pos |-> 1, recovery_states |-> <<>>, consumed_tokens |-> <<>>]

\* Parser::peek; past the end of the stream there is nothing to peek at
peek(p) == IF p.pos <= Len(tokens) THEN tokens[p.pos] ELSE Tok("None", <<>>)

\* Parser::advance
advance(p) ==
    [p EXCEPT !.pos = @ + 1,
              !.consumed_tokens = Append(@, peek(p).kind)]

push_recovery_state(p, block_type) ==
    [p EXCEPT !.recovery_states = Append(@, block_type)]

pop_recovery_state(p) ==
    [p EXCEPT !.recovery_states =
        IF @ = <<>> THEN @ ELSE SubSeq(@, 1, Len(@) - 1)]

\* current_recovery_state reading the oldest marker of the stack
current_recovery_state_oldest(p) ==
    IF p.recovery_states = <<>> THEN "None" ELSE Head(p.recovery_states)

\* Parser::current_recovery_state: the block type of the top marker, or "None"
current_recovery_state(p) ==
    IF p.recovery_states = <<>> THEN "None" ELSE Last(p.recovery_states)

\* Parser::expect
\* expect consuming the token it rejects
expect_consuming(p, expected_tokens) ==
    IF peek(p).kind \in SeqToSet(expected_tokens)
    THEN Ok(peek(p), advance(p))
    ELSE Err(unexpected_token(expected_tokens, peek(p)), advance(p))

expect(p, expected_tokens) ==
    IF peek(p).kind \in SeqToSet(expected_tokens)
    THEN Ok(peek(p), advance(p))
    ELSE Err(unexpected_token(expected_tokens, peek(p)), p)

\* recover that skips nothing
recover_nothing(p) == p

\* Parser::recover
RECURSIVE recover(_)
recover(p) ==
    LET token_kind == peek(p).kind IN
    IF token_kind = "EndOfFile" \/ token_kind \in SeqToSet(RECOVERY_END_POINTS)
          \/ p.pos > Len(tokens)
    THEN p
    ELSE recover(advance(p))

\* f of the value of v
With(v, f(_)) == f(v)

\* the closure of map_err in parse_statement: push the marker of the failed block
map_err_push(r, block_type) ==
    With(r, LAMBDA x :
         IF x.status = "Err"
         THEN [x EXCEPT !.p = push_recovery_state(@, block_type)]
         ELSE x)

\* The ? operator: an Err or a panic of r ends the method, otherwise the
\* method goes on as f with the value and the parser state of r.
Try(r, f(_)) == IF r.status # "Ok" THEN r ELSE f(r)

\* A parser method calls another through  call , defined after the methods:
\* call("parse_expression", <<p>>) is self.parse_expression() in state p.
RECURSIVE call(_, _)

\* the while loop of parse_function_call_arguments_list
RECURSIVE arguments_list_loop(_, _)
arguments_list_loop(p, arguments) ==
    IF peek(p).kind # "Comma" THEN Ok(arguments, p)
    ELSE Try(call("parse_expression", <<advance(p)>>), LAMBDA r :
         arguments_list_loop(r.p, Append(arguments, r.val)))

parse_function_call_arguments_list(p) ==
    Try(call("parse_expression", <<p>>), LAMBDA r :
    arguments_list_loop(r.p, <<r.val>>))

parse_function_call_arguments(p) ==
    Try(expect(p, <<"LeftParen">>), LAMBDA r1 :
    Try(IF peek(r1.p).kind = "RightParen" THEN Ok(<<>>, r1.p)
        ELSE call("parse_function_call_arguments_list", <<r1.p>>), LAMBDA r2 :
    Try(expect(r2.p, <<"RightParen">>), LAMBDA r3 :
    Ok(r2.val, r3.p))))

parse_grouped_expression(p) ==
    Try(expect(p, <<"LeftParen">>), LAMBDA r1 :
    Try(call("parse_expression", <<r1.p>>), LAMBDA r2 :
    Try(expect(r2.p, <<"RightParen">>), LAMBDA r3 :
    Ok(Grouped(r2.val), r3.p))))

\* the Identifier arm of parse_literal_expression, after the advance
literal_identifier(next_token, p1) ==
    IF peek(p1).kind # "LeftParen" THEN Ok(Variable(next_token.value), p1)
    ELSE Try(call("parse_function_call_arguments", <<p1>>), LAMBDA r :
         Ok(FunctionCall(next_token.value, r.val), r.p))

\* the Number arm of parse_literal_expression: value.parse().unwrap()
literal_number(n, p1) == IF n < 0 THEN Panicked(p1) ELSE Ok(Number(n), p1)

parse_literal_expression(p) ==
    CASE peek(p).kind = "Number" ->
           call("literal_number", <<parse_i64(peek(p).value, 0), advance(p)>>)
      [] peek(p).kind = "TrueKeyword" -> Ok(Boolean(TRUE), advance(p))
      [] peek(p).kind = "FalseKeyword" -> Ok(Boolean(FALSE), advance(p))
      [] peek(p).kind = "Identifier" -> call("literal_identifier", <<peek(p), advance(p)>>)
      [] OTHER ->
           Err(unexpected_token(<<"Number", "Identifier", "TrueKeyword",
                                  "FalseKeyword">>, peek(p)), p)

parse_primary_expression(p) ==
    IF peek(p).kind = "LeftParen" THEN call("parse_grouped_expression", <<p>>)
    ELSE call("parse_literal_expression", <<p>>)

\* parse_unary_expression taking a whole expression as the operand
parse_unary_expression_over_binary(p) ==
    IF peek(p).kind \in UnaryTokenKinds
    THEN Try(call("parse_expression", <<advance(p)>>), LAMBDA r :
         Ok(UnaryOperation(UnaryOperator_try_from(peek(p).kind), r.val), r.p))
    ELSE call("parse_primary_expression", <<p>>)

parse_unary_expression(p) ==
    IF peek(p).kind \in UnaryTokenKinds
    THEN Try(call("parse_unary_expression", <<advance(p)>>), LAMBDA r :
         Ok(UnaryOperation(UnaryOperator_try_from(peek(p).kind), r.val), r.p))
    ELSE call("parse_primary_expression", <<p>>)

\* a turn of the while-let loop of parse_expression_with_precedence for the
\* operator op at the head of the stream
RECURSIVE binary_loop(_, _, _)

\* a turn that parses the right operand with the operator's own precedence
binary_turn_right_associative(p, left, min_precedence, op) ==
    IF precedence(op) < min_precedence THEN Ok(left, p)
    ELSE Try(call("parse_expression_with_precedence",
                  <<advance(p), precedence(op)>>), LAMBDA r :
         binary_loop(r.p, BinaryOperation(left, op, r.val), min_precedence))

binary_turn(p, left, min_precedence, op) ==
    IF precedence(op) < min_precedence THEN Ok(left, p)
    ELSE Try(call("parse_expression_with_precedence",
                  <<advance(p), precedence(op) + 1>>), LAMBDA r :
         binary_loop(r.p, BinaryOperation(left, op, r.val), min_precedence))

\* the while-let loop of parse_expression_with_precedence
binary_loop(p, left, min_precedence) ==
    IF peek(p).kind \notin BinaryTokenKinds THEN Ok(left, p)
    ELSE call("binary_turn", <<p, left, min_precedence,
                     BinaryOperator_try_from(peek(p).kind)>>)

parse_expression_with_precedence(p, min_precedence) ==
    Try(call("parse_unary_expression", <<p>>), LAMBDA r :
    binary_loop(r.p, r.val, min_precedence))

parse_expression(p) == call("parse_expression_with_precedence", <<p, 0>>)

\* the while loop of parse_statements_until
RECURSIVE statements_until_loop(_, _, _)
statements_until_loop(p, stop_tokens, statements) ==
    IF peek(p).kind \in stop_tokens
    THEN Ok(BlockStatement(statements), p)
    ELSE Try(call("parse_statement", <<p>>), LAMBDA r :
         IF r.val = NoneV THEN Ok(BlockStatement(statements), r.p)
         ELSE statements_until_loop(r.p, stop_tokens, Append(statements, r.val)))

parse_statements_until(p, stop_tokens) ==
    statements_until_loop(p, stop_tokens, <<>>)

\* the loop of parse_tokens_list
RECURSIVE tokens_list_loop(_, _, _, _)
tokens_list_loop(p, target_token_type, separator, toks) ==
    IF separator # "None" /\ peek(p).kind # separator THEN Ok(toks, p)
    ELSE Try(expect(IF separator # "None" THEN advance(p) ELSE p,
                    <<target_token_type>>), LAMBDA r :
         tokens_list_loop(r.p, target_token_type, separator, Append(toks, r.val)))

parse_tokens_list(p, target_token_type, separator) ==
    Try(expect(p, <<target_token_type>>), LAMBDA r :
    tokens_list_loop(r.p, target_token_type, separator, <<r.val>>))

parse_variable_declaration(p) ==
    Try(expect(p, <<"LetKeyword">>), LAMBDA r1 :
    Try(expect(r1.p, <<"Identifier">>), LAMBDA r2 :
    Try(expect(r2.p, <<"BeKeyword">>), LAMBDA r3 :
    Try(call("parse_expression", <<r3.p>>), LAMBDA r4 :
    Ok(VariableDeclaration(r2.val.value, r4.val), r4.p)))))

parse_variable_assignement(p) ==
    Try(expect(p, <<"SetKeyword">>), LAMBDA r1 :
    Try(expect(r1.p, <<"Identifier">>), LAMBDA r2 :
    Try(expect(r2.p, <<"ToKeyword">>), LAMBDA r3 :
    Try(call("parse_expression", <<r3.p>>), LAMBDA r4 :
    Ok(VariableAssignment(r2.val.value, r4.val), r4.p)))))

parse_if_then_branch(p) ==
    Try(expect(p, <<"IfKeyword">>), LAMBDA r1 :
    Try(call("parse_expression", <<r1.p>>), LAMBDA r2 :
    Try(expect(r2.p, <<"ThenKeyword">>), LAMBDA r3 :
    Try(call("parse_statements_until", <<r3.p, {"ElseKeyword", "EndKeyword"}>>), LAMBDA r4 :
    Ok([condition |-> r2.val, then_branch |-> r4.val], r4.p)))))

parse_else_branch(p) ==
    Try(expect(p, <<"ElseKeyword">>), LAMBDA r1 :
    IF peek(r1.p).kind = "IfKeyword" THEN call("parse_if_statement", <<r1.p>>)
    ELSE Try(call("parse_statements_until", <<r1.p, {"EndKeyword"}>>), LAMBDA r2 :
         Try(expect(r2.p, <<"EndKeyword">>), LAMBDA r3 :
         Ok(r2.val, r3.p))))

parse_if_statement(p) ==
    Try(call("parse_if_then_branch", <<p>>), LAMBDA r1 :
    IF peek(r1.p).kind = "ElseKeyword"
    THEN Try(call("parse_else_branch", <<r1.p>>), LAMBDA r2 :
         Ok(IfStatement(r1.val.condition, r1.val.then_branch, r2.val), r2.p))
    ELSE Try(expect(r1.p, <<"EndKeyword">>), LAMBDA r3 :
         Ok(IfStatement(r1.val.condition, r1.val.then_branch, NoneV), r3.p)))

parse_while_statement(p) ==
    Try(expect(p, <<"WhileKeyword">>), LAMBDA r1 :
    Try(call("parse_expression", <<r1.p>>), LAMBDA r2 :
    Try(expect(r2.p, <<"DoKeyword">>), LAMBDA r3 :
    Try(call("parse_statements_until", <<r3.p, {"EndKeyword"}>>), LAMBDA r4 :
    Try(expect(r4.p, <<"EndKeyword">>), LAMBDA r5 :
    Ok(WhileStatement(r2.val, r4.val), r5.p))))))

\* parse_for_statement from the optional step on
for_statement_tail(variable, start, end, p) ==
    Try(IF peek(p).kind = "StepKeyword" THEN call("parse_expression", <<advance(p)>>)
        ELSE Ok(NoneV, p), LAMBDA r7 :
    Try(expect(r7.p, <<"DoKeyword">>), LAMBDA r8 :
    Try(call("parse_statements_until", <<r8.p, {"EndKeyword"}>>), LAMBDA r9 :
    Try(expect(r9.p, <<"EndKeyword">>), LAMBDA r10 :
    Ok(ForStatement(variable, start, end, r7.val, r9.val), r10.p)))))

parse_for_statement(p) ==
    Try(expect(p, <<"ForKeyword">>), LAMBDA r1 :
    Try(expect(r1.p, <<"Identifier">>), LAMBDA r2 :
    Try(expect(r2.p, <<"FromKeyword">>), LAMBDA r3 :
    Try(call("parse_expression", <<r3.p>>), LAMBDA r4 :
    Try(expect(r4.p, <<"ToKeyword">>), LAMBDA r5 :
    Try(call("parse_expression", <<r5.p>>), LAMBDA r6 :
    call("for_statement_tail", <<r2.val.value, r4.val, r6.val, r6.p>>)))))))

\* the Vec<Token> of parameters, reduced to the parameter names
RECURSIVE token_values(_)
token_values(toks) ==
    IF toks = <<>> THEN <<>> ELSE <<Head(toks).value>> \o token_values(Tail(toks))

parse_function_definition(p) ==
    Try(expect(p, <<"DefineKeyword">>), LAMBDA r1 :
    Try(expect(r1.p, <<"FunctionKeyword">>), LAMBDA r2 :
    Try(expect(r2.p, <<"Identifier">>), LAMBDA r3 :
    Try(IF peek(r3.p).kind = "WithKeyword"
        THEN call("parse_tokens_list", <<advance(r3.p), "Identifier", "Comma">>)
        ELSE Ok(<<>>, r3.p), LAMBDA r4 :
    Try(expect(r4.p, <<"AsKeyword">>), LAMBDA r5 :
    Try(call("parse_statements_until", <<r5.p, {"EndKeyword"}>>), LAMBDA r6 :
    Try(expect(r6.p, <<"EndKeyword">>), LAMBDA r7 :
    Ok(FunctionDefinition(r3.val.value, token_values(r4.val), r6.val), r7.p))))))))

parse_function_call(p) ==
    Try(expect(p, <<"Identifier">>), LAMBDA r1 :
    Try(call("parse_function_call_arguments", <<r1.p>>), LAMBDA r2 :
    Ok(FunctionCall(r1.val.value, r2.val), r2.p)))

parse_return_statement(p) ==
    Try(expect(p, <<"ReturnKeyword">>), LAMBDA r1 :
    Try(IF peek(r1.p).kind = "LeftParen" THEN call("parse_grouped_expression", <<r1.p>>)
        ELSE Ok(NoneV, r1.p), LAMBDA r2 :
    Ok(ReturnStatement(r2.val), r2.p)))

parse_statement(p) ==
    CASE peek(p).kind = "EndOfFile" -> Ok(NoneV, p)
      [] peek(p).kind = "LetKeyword" -> call("parse_variable_declaration", <<p>>)
      [] peek(p).kind = "SetKeyword" -> call("parse_variable_assignement", <<p>>)
      [] peek(p).kind = "IfKeyword" ->
           map_err_push(call("parse_if_statement", <<p>>), "IfBlock")
      [] peek(p).kind = "WhileKeyword" ->
           map_err_push(call("parse_while_statement", <<p>>), "WhileBlock")
      [] peek(p).kind = "ForKeyword" ->
           map_err_push(call("parse_for_statement", <<p>>), "ForBlock")
      [] peek(p).kind = "DefineKeyword" ->
           map_err_push(call("parse_function_definition", <<p>>), "FunctionBlock")
      [] peek(p).kind = "Identifier" -> call("parse_function_call", <<p>>)
      [] peek(p).kind = "ReturnKeyword" -> call("parse_return_statement", <<p>>)
      [] peek(p).kind = "ElseKeyword" ->
           IF current_recovery_state(p) = "IfBlock"
           THEN call("parse_statement", <<advance(p)>>)
           ELSE IF p.consumed_tokens # <<>>
                   /\ Last(p.consumed_tokens) = "EndKeyword"
           THEN Err(unexpected_else_after_end,
                    advance(push_recovery_state(p, "ElseBlock")))
           ELSE Err(unexpected_else_token,
                    advance(push_recovery_state(p, "ElseBlock")))
      [] peek(p).kind = "EndKeyword" ->
           IF current_recovery_state(p) # "None"
           THEN call("parse_statement", <<advance(pop_recovery_state(p))>>)
           ELSE Err(unexpected_end_token, advance(p))
      [] OTHER ->
           Err(unexpected_token(RECOVERY_END_POINTS, peek(p)), advance(p))

\* the parser methods, as one calls another
call(method, args) ==
    CASE method = "parse_function_call_arguments_list" ->
           parse_function_call_arguments_list(args[1])
      [] method = "parse_function_call_arguments" ->
           parse_function_call_arguments(args[1])
      [] method = "parse_grouped_expression" ->
           parse_grouped_expression(args[1])
      [] method = "literal_identifier" ->
           literal_identifier(args[1], args[2])
      [] method = "literal_number" ->
           literal_number(args[1], args[2])
      [] method = "parse_literal_expression" ->
           parse_literal_expression(args[1])
      [] method = "parse_primary_expression" ->
           parse_primary_expression(args[1])
      [] method = "parse_unary_expression" ->
           parse_unary_expression(args[1])
      [] method = "binary_turn" ->
           binary_turn(args[1], args[2], args[3], args[4])
      [] method = "parse_expression_with_precedence" ->
           parse_expression_with_precedence(args[1], args[2])
      [] method = "parse_expression" ->
           parse_expression(args[1])
      [] method = "parse_statements_until" ->
           parse_statements_until(args[1], args[2])
      [] method = "parse_tokens_list" ->
           parse_tokens_list(args[1], args[2], args[3])
      [] method = "parse_variable_declaration" ->
           parse_variable_declaration(args[1])
      [] method = "parse_variable_assignement" ->
           parse_variable_assignement(args[1])
      [] method = "parse_if_then_branch" ->
           parse_if_then_branch(args[1])
      [] method = "parse_else_branch" ->
           parse_else_branch(args[1])
      [] method = "parse_if_statement" ->
           parse_if_statement(args[1])
      [] method = "parse_while_statement" ->
           parse_while_statement(args[1])
      [] method = "for_statement_tail" ->
           for_statement_tail(args[1], args[2], args[3], args[4])
      [] method = "parse_for_statement" ->
           parse_for_statement(args[1])
      [] method = "parse_function_definition" ->
           parse_function_definition(args[1])
      [] method = "parse_function_call" ->
           parse_function_call(args[1])
      [] method = "parse_return_statement" ->
           parse_return_statement(args[1])
      [] method = "parse_statement" ->
           parse_statement(args[1])

--------------------------------------------------------------------------
(* Types (src/types.rs) *)

resolve_binary_operation_type(left, right, operator) ==
    CASE left = "Int" /\ right = "Int"
            /\ operator \in {"Add", "Subtract", "Multiply", "Divide", "Modulus"} -> "Int"
      [] left = "Bool" /\ right = "Bool" /\ operator \in {"And", "Or"} -> "Bool"
      [] operator = "Equal" -> "Bool"
      [] operator \in {"NotEqual", "LessThan", "GreaterThan", "LessThanOrEqual",
                       "GreaterThanOrEqual"} -> "Int"
      [] OTHER -> "Unresolved"

resolve_unary_operation_type(operand, operator) ==
    CASE operand = "Int" /\ operator = "Negate" -> "Int"
      [] operand = "Bool" /\ operator = "Not" -> "Bool"
      [] OTHER -> "Unresolved"

--------------------------------------------------------------------------
(* Symbol table (src/symbols_table.rs).  A ScopeId is the 0-based index   *)
(* of the Rust code; scope id lives at scopes[id + 1].  A map is a         *)
(* function on the set of its keys.                                        *)

\* Scope.parent of the global scope: None
NoParent == -1

EmptyMap == <<>>

\* HashMap::insert
MapInsert(m, k, v) == [x \in DOMAIN m \cup {k} |-> IF x = k THEN v ELSE m[x]]

\* HashMap::get: NoneV when the key is absent
MapGet(m, k) == IF k \in DOMAIN m THEN m[k] ELSE NoneV

VariableSymbol(identifier, sym_type) ==
    [identifier |-> identifier, sym_type |-> sym_type]

FunctionSymbol(identifier, parameters) ==
    [identifier |-> identifier, parameters |-> parameters]

SymbolsTable_new ==
    [scopes |-> <<[variables |-> EmptyMap, parent |-> NoParent]>>,
     functions |-> EmptyMap]

\* SymbolsTable::enter_scope: the table with the new scope; its id is the
\* old length of scopes
enter_scope(st, current_scope_id) ==
    [st EXCEPT !.scopes = Append(@, [variables |-> EmptyMap,
                                     parent |-> current_scope_id])]

\* SymbolsTable::exit_scope: the parent, NoParent where the code panics
exit_scope(st, current_scope_id) == st.scopes[current_scope_id + 1].parent

define_variable(st, symbol, current_scope_id) ==
    [st EXCEPT !.scopes[current_scope_id + 1].variables =
                   MapInsert(@, symbol.identifier, symbol)]

define_function(st, symbol) ==
    [st EXCEPT !.functions = MapInsert(@, symbol.identifier, symbol)]

\* lookup_variable_in_scope_only looking through every scope of the table
lookup_variable_in_all_scopes(st, identifier, current_scope_id) ==
    IF \A j \in 1..Len(st.scopes) : identifier \notin DOMAIN st.scopes[j].variables
    THEN NoneV
    ELSE LET j == CHOOSE j \in 1..Len(st.scopes) :
                      identifier \in DOMAIN st.scopes[j].variables IN
         st.scopes[j].variables[identifier]

lookup_variable_in_scope_only(st, identifier, current_scope_id) ==
    MapGet(st.scopes[current_scope_id + 1].variables, identifier)

lookup_function(st, identifier) == MapGet(st.functions, identifier)

\* lookup_variable that does not go on to the parent scope
lookup_variable_without_parents(st, identifier, current_scope_id) ==
    MapGet(st.scopes[current_scope_id + 1].variables, identifier)

\* lookup_variable preferring the binding of the outermost scope of the chain
RECURSIVE lookup_variable_outermost(_, _, _)
lookup_variable_outermost(st, identifier, current_scope_id) ==
    IF current_scope_id = NoParent THEN NoneV
    ELSE LET scope == st.scopes[current_scope_id + 1]
             outer == lookup_variable_outermost(st, identifier, scope.parent) IN
         IF outer # NoneV THEN outer ELSE MapGet(scope.variables, identifier)

RECURSIVE lookup_variable(_, _, _)
lookup_variable(st, identifier, current_scope_id) ==
    IF current_scope_id = NoParent THEN NoneV
    ELSE LET scope == st.scopes[current_scope_id + 1] IN
         IF identifier \in DOMAIN scope.variables
         THEN scope.variables[identifier]
         ELSE lookup_variable(st, identifier, scope.parent)

--------------------------------------------------------------------------
(* Parser::parse (src/parser.rs), one action per turn of its loop, and    *)
(* Compiler::compile (src/compiler.rs) around it                          *)

NoPanic == "none"

StmtFrame(s) == [op |-> "stmt", node |-> s]
ExprFrame(e) == [op |-> "expr", node |-> e]

\* AstExplorer::explore_ast / the for_each of a block: one frame per statement
RECURSIVE StmtFrames(_)
StmtFrames(stmts) ==
    IF stmts = <<>> THEN <<>>
    ELSE <<StmtFrame(Head(stmts))>> \o StmtFrames(Tail(stmts))

\* Resolver::new
Resolver_new ==
    [symbols_table |-> SymbolsTable_new,
     current_scope_id |-> 0,
     diagnostics |-> <<>>,
     block_type_stack |-> <<>>,
     current_block_type |-> "None",
     type_accumulator |-> "Unresolved"]

\* Interpreter::new
Interpreter_new ==
    [accumulator |-> NoneV, scopes |-> <<EmptyMap>>, functions |-> EmptyMap]

\* Ok(Some(stmt)) => ast.add_statement(stmt), for the result r of
\* parse_statement
AddStatement(r) ==
    /\ r.status = "Ok" /\ r.val # NoneV
    /\ r.p.pos <= Len(tokens)
    /\ ast' = Append(ast, r.val)
    /\ parser' = r.p

ParseStatementOk ==
    /\ stage = "parse"
    /\ AddStatement(call("parse_statement", <<parser>>))
    /\ UNCHANGED <<lexer, tokens, overflow_checks, stage, diagnostic, resolver,
                   interpreter, kont, panic, trace>>

\* Err(diag) => { diagnostic.report(diag); self.recover(); }
ReportAndRecover(r) ==
    /\ r.status = "Err"
    /\ r.p.pos <= Len(tokens)
    /\ diagnostic' = Append(diagnostic, r.val)
    /\ parser' = recover(r.p)

ParseStatementErr ==
    /\ stage = "parse"
    /\ ReportAndRecover(call("parse_statement", <<parser>>))
    /\ UNCHANGED <<lexer, tokens, overflow_checks, stage, ast, resolver, interpreter,
                   kont, panic, trace>>

\* a failed unwrap(): a number literal that does not fit, or a peek past the
\* end of the stream
Unwound(r) ==
    /\ r.status = "Panic" \/ r.p.pos > Len(tokens)
    /\ parser' = r.p

ParsePanic ==
    /\ stage = "parse"
    /\ Unwound(call("parse_statement", <<parser>>))
    /\ stage' = "panicked"
    /\ panic' = "unwrap on Err"
    /\ UNCHANGED <<lexer, tokens, overflow_checks, ast, diagnostic, resolver,
                   interpreter, kont, trace>>

\* Ok(None) => break
Break(r) ==
    /\ r.status = "Ok" /\ r.val = NoneV
    /\ r.p.pos <= Len(tokens)
    /\ parser' = r.p

\* the end of Parser::parse with Compiler::compile going on to the resolver
\* whatever parse returned
ParseEnd_then_resolve ==
    /\ stage = "parse"
    /\ Break(call("parse_statement", <<parser>>))
    /\ stage' = "resolve"
    /\ kont' = StmtFrames(ast)
    /\ UNCHANGED <<lexer, tokens, overflow_checks, ast, diagnostic, resolver,
                   interpreter, panic, trace>>

\* Ok(None) => break; parse returns Err(diagnostic) or Ok(ast); on Ok,
\* Compiler::compile goes on to Resolver::new().resolve(&ast)
ParseEnd ==
    /\ stage = "parse"
    /\ Break(call("parse_statement", <<parser>>))
    /\ IF has_errors(diagnostic)
       THEN /\ stage' = "compile_failed"
            /\ UNCHANGED kont
       ELSE /\ stage' = "resolve"
            /\ kont' = StmtFrames(ast)
    /\ UNCHANGED <<lexer, tokens, overflow_checks, ast, diagnostic, resolver,
                   interpreter, panic, trace>>

--------------------------------------------------------------------------
(* Resolver (src/resolver.rs) as an AstExplorer (src/ast.rs).  The head   *)
(* of kont is what runs next: a node still to visit ("stmt", "expr") or   *)
(* the activation of a hook that waits for the visit above it to return,  *)
(* with the hook's locals and its position pc.                             *)

Top == Head(kont)
Rest == Tail(kont)

RECURSIVE ExprFrames(_)
ExprFrames(exprs) ==
    IF exprs = <<>> THEN <<>>
    ELSE <<ExprFrame(Head(exprs))>> \o ExprFrames(Tail(exprs))

Visiting(st, frame_op, node_kind) ==
    /\ stage = st
    /\ kont # <<>>
    /\ Top.op = frame_op
    /\ Top.node.kind = node_kind

Resuming(st, frame_op) ==
    /\ stage = st
    /\ kont # <<>>
    /\ Top.op = frame_op

\* self.diagnostics.report(d)
report(r, d) == [r EXCEPT !.diagnostics = Append(@, d)]

\* Resolver::enter_scope
Resolver_enter_scope(r) ==
    [r EXCEPT !.symbols_table = enter_scope(@, r.current_scope_id),
              !.current_scope_id = Len(r.symbols_table.scopes)]

\* exit_scope staying in the scope
Resolver_exit_scope_staying(r) == r

\* Resolver::exit_scope
Resolver_exit_scope(r) ==
    [r EXCEPT !.current_scope_id = exit_scope(r.symbols_table, @)]

\* is_inside_block looking at the innermost block only
is_innermost_block(r, block_type) ==
    r.block_type_stack # <<>> /\ Last(r.block_type_stack) = block_type

\* Resolver::is_inside_block
is_inside_block(r, block_type) ==
    \E i \in 1..Len(r.block_type_stack) : r.block_type_stack[i] = block_type

RKeep == UNCHANGED <<lexer, tokens, overflow_checks, parser, ast, diagnostic,
                     interpreter, trace>>

\* the expect() of SymbolsTable::exit_scope fails in the global scope
RExitOrPanic(r) ==
    IF exit_scope(r.symbols_table, r.current_scope_id) = NoParent
    THEN /\ stage' = "panicked"
         /\ panic' = "Cannot exit global scope"
         /\ UNCHANGED <<resolver, kont>>
    ELSE /\ resolver' = Resolver_exit_scope(r)
         /\ kont' = Rest
         /\ UNCHANGED <<stage, panic>>

\* visit_variable_declaration, up to visit_expression(value)
R_visit_variable_declaration ==
    /\ Visiting("resolve", "stmt", "VariableDeclaration")
    /\ resolver' =
         IF lookup_variable_in_scope_only(resolver.symbols_table, Top.node.name,
                                          resolver.current_scope_id) # NoneV
         THEN report(resolver, variable_redefinition(Top.node.name))
         ELSE resolver
    /\ kont' = <<ExprFrame(Top.node.value),
                 [op |-> "visit_variable_declaration", name |-> Top.node.name]>>
               \o Rest
    /\ UNCHANGED <<stage, panic>> /\ RKeep

\* visit_variable_declaration, the define_variable after the value's visit
R_define_variable ==
    /\ Resuming("resolve", "visit_variable_declaration")
    /\ resolver' = [resolver EXCEPT !.symbols_table =
           define_variable(@, VariableSymbol(Top.name, resolver.type_accumulator),
                           resolver.current_scope_id)]
    /\ kont' = Rest
    /\ UNCHANGED <<stage, panic>> /\ RKeep

\* visit_variable_assignement, up to visit_expression(value)
R_visit_variable_assignement ==
    /\ Visiting("resolve", "stmt", "VariableAssignment")
    /\ kont' = <<ExprFrame(Top.node.value),
                 [op |-> "visit_variable_assignement", name |-> Top.node.name]>>
               \o Rest
    /\ UNCHANGED <<resolver, stage, panic>> /\ RKeep

\* visit_variable_assignement, the lookup after the value's visit
R_check_assignement ==
    /\ Resuming("resolve", "visit_variable_assignement")
    /\ LET variable_symbol == lookup_variable(resolver.symbols_table, Top.name,
                                              resolver.current_scope_id) IN
       resolver' =
         IF variable_symbol # NoneV
         THEN IF variable_symbol.sym_type # resolver.type_accumulator
              THEN report(resolver, variable_type_mismatch(Top.name,
                              variable_symbol.sym_type, resolver.type_accumulator))
              ELSE resolver
         ELSE report(resolver, undefined_variable(Top.name))
    /\ kont' = Rest
    /\ UNCHANGED <<stage, panic>> /\ RKeep

\* visit_if_statement, up to visit_expression(condition)
R_visit_if_statement ==
    /\ Visiting("resolve", "stmt", "IfStatement")
    /\ resolver' = [resolver EXCEPT !.current_block_type = "IfBlock"]
    /\ kont' = <<ExprFrame(Top.node.condition),
                 [op |-> "visit_if_statement", pc |-> 1, node |-> Top.node]>>
               \o Rest
    /\ UNCHANGED <<stage, panic>> /\ RKeep

\* visit_if_statement: pc 1 checks the condition and visits then_branch,
\* pc 2 marks the else block and visits else_branch
R_resume_if_statement ==
    /\ Resuming("resolve", "visit_if_statement")
    /\ IF Top.pc = 1
       THEN /\ resolver' =
                 IF resolver.type_accumulator # "Bool"
                 THEN report(resolver, expression_type_mismatch("Bool",
                                           resolver.type_accumulator))
                 ELSE resolver
            /\ kont' = <<StmtFrame(Top.node.then_branch)>>
                       \o (IF Top.node.else_branch # NoneV
                           THEN <<[Top EXCEPT !.pc = 2]>> ELSE <<>>)
                       \o Rest
       ELSE /\ resolver' = [resolver EXCEPT !.current_block_type = "ElseBlock"]
            /\ kont' = <<StmtFrame(Top.node.else_branch)>> \o Rest
    /\ UNCHANGED <<stage, panic>> /\ RKeep

\* visit_while_statement, up to visit_expression(condition)
R_visit_while_statement ==
    /\ Visiting("resolve", "stmt", "WhileStatement")
    /\ resolver' = [resolver EXCEPT !.current_block_type = "WhileBlock"]
    /\ kont' = <<ExprFrame(Top.node.condition),
                 [op |-> "visit_while_statement", node |-> Top.node]>>
               \o Rest
    /\ UNCHANGED <<stage, panic>> /\ RKeep

\* visit_while_statement, the condition check and the visit of the body
R_resume_while_statement ==
    /\ Resuming("resolve", "visit_while_statement")
    /\ resolver' =
         IF resolver.type_accumulator # "Bool"
         THEN report(resolver, expression_type_mismatch("Bool",
                                   resolver.type_accumulator))
         ELSE resolver
    /\ kont' = <<StmtFrame(Top.node.body)>> \o Rest
    /\ UNCHANGED <<stage, panic>> /\ RKeep

\* visit_for_statement, up to visit_expression(start)
R_visit_for_statement ==
    /\ Visiting("resolve", "stmt", "ForStatement")
    /\ resolver' = [resolver EXCEPT !.current_block_type = "ForBlock"]
    /\ kont' = <<ExprFrame(Top.node.start),
                 [op |-> "visit_for_statement", pc |-> 1, node |-> Top.node,
                  start_type |-> "Unresolved", end_type |-> "Unresolved"]>>
               \o Rest
    /\ UNCHANGED <<stage, panic>> /\ RKeep

\* the tail of visit_for_statement: enter_scope, define the loop variable,
\* visit the body
ForEnterBody(r, f) ==
    LET r1 == Resolver_enter_scope(r) IN
    [r1 EXCEPT !.symbols_table =
        define_variable(@, VariableSymbol(f.node.variable, f.start_type),
                        r1.current_scope_id)]

\* visit_for_statement after a visit returned: pc 1 after start, pc 2 after
\* end, pc 3 after step, pc 4 after the body
R_resume_for_statement ==
    /\ Resuming("resolve", "visit_for_statement")
    /\ CASE Top.pc = 1 ->
              /\ resolver' = resolver
              /\ kont' = <<ExprFrame(Top.node.end),
                           [Top EXCEPT !.pc = 2,
                                       !.start_type = resolver.type_accumulator]>>
                         \o Rest
              /\ UNCHANGED <<stage, panic>>
         [] Top.pc = 2 ->
              LET f == [Top EXCEPT !.end_type = resolver.type_accumulator]
                  r1 == IF f.start_type # f.end_type
                        THEN report(resolver, variable_type_mismatch(
                                 f.node.variable, f.start_type, f.end_type))
                        ELSE resolver IN
              /\ IF f.node.step # NoneV
                 THEN /\ resolver' = r1
                      /\ kont' = <<ExprFrame(f.node.step), [f EXCEPT !.pc = 3]>>
                                 \o Rest
                 ELSE /\ resolver' = ForEnterBody(r1, f)
                      /\ kont' = <<StmtFrame(f.node.body), [f EXCEPT !.pc = 4]>>
                                 \o Rest
              /\ UNCHANGED <<stage, panic>>
         [] Top.pc = 3 ->
              LET step_type == resolver.type_accumulator
                  r1 == IF step_type # Top.start_type
                        THEN report(resolver, variable_type_mismatch(
                                 Top.node.variable, Top.start_type, step_type))
                        ELSE resolver
                  r2 == IF Top.end_type # step_type
                        THEN report(r1, expression_type_mismatch(Top.end_type,
                                                                 step_type))
                        ELSE r1 IN
              /\ resolver' = ForEnterBody(r2, Top)
              /\ kont' = <<StmtFrame(Top.node.body), [Top EXCEPT !.pc = 4]>>
                         \o Rest
              /\ UNCHANGED <<stage, panic>>
         [] Top.pc = 4 -> RExitOrPanic(resolver)
    /\ RKeep

\* AstExplorer::visit_statement on a BlockStatement with
\* Resolver::block_statement_on_enter
R_block_statement_on_enter ==
    /\ Visiting("resolve", "stmt", "BlockStatement")
    /\ LET r1 == Resolver_enter_scope(resolver) IN
       resolver' =
         IF r1.current_block_type # "None"
         THEN [r1 EXCEPT !.block_type_stack = Append(@, r1.current_block_type),
                         !.current_block_type = "None"]
         ELSE r1
    /\ kont' = StmtFrames(Top.node.statements) \o <<[op |-> "block_exit"]>> \o Rest
    /\ UNCHANGED <<stage, panic>> /\ RKeep

\* Resolver::block_statement_on_exit
R_block_statement_on_exit ==
    /\ Resuming("resolve", "block_exit")
    /\ IF exit_scope(resolver.symbols_table, resolver.current_scope_id) = NoParent
       THEN /\ stage' = "panicked"
            /\ panic' = "Cannot exit global scope"
            /\ UNCHANGED <<resolver, kont>>
       ELSE /\ resolver' =
                 [Resolver_exit_scope(resolver) EXCEPT !.block_type_stack =
                     IF @ = <<>> THEN @ ELSE SubSeq(@, 1, Len(@) - 1)]
            /\ kont' = Rest
            /\ UNCHANGED <<stage, panic>>
    /\ RKeep

R_visit_number_expression ==
    /\ Visiting("resolve", "expr", "Number")
    /\ resolver' = [resolver EXCEPT !.type_accumulator = "Int"]
    /\ kont' = Rest
    /\ UNCHANGED <<stage, panic>> /\ RKeep

R_visit_boolean_expression ==
    /\ Visiting("resolve", "expr", "Boolean")
    /\ resolver' = [resolver EXCEPT !.type_accumulator = "Bool"]
    /\ kont' = Rest
    /\ UNCHANGED <<stage, panic>> /\ RKeep

R_visit_variable_expression ==
    /\ Visiting("resolve", "expr", "Variable")
    /\ LET symbol == lookup_variable(resolver.symbols_table, Top.node.name,
                                     resolver.current_scope_id) IN
       resolver' =
         IF symbol # NoneV
         THEN [resolver EXCEPT !.type_accumulator = symbol.sym_type]
         ELSE report(resolver, undefined_variable(Top.node.name))
    /\ kont' = Rest
    /\ UNCHANGED <<stage, panic>> /\ RKeep

\* visit_binary_operation, up to visit_expression(left)
R_visit_binary_operation ==
    /\ Visiting("resolve", "expr", "BinaryOperation")
    /\ kont' = <<ExprFrame(Top.node.left),
                 [op |-> "visit_binary_operation", pc |-> 1, node |-> Top.node,
                  left |-> "Unresolved"]>>
               \o Rest
    /\ UNCHANGED <<resolver, stage, panic>> /\ RKeep

\* visit_binary_operation: pc 1 after the left operand, pc 2 after the right
R_resume_binary_operation ==
    /\ Resuming("resolve", "visit_binary_operation")
    /\ IF Top.pc = 1
       THEN /\ resolver' = resolver
            /\ kont' = <<ExprFrame(Top.node.right),
                         [Top EXCEPT !.pc = 2,
                                     !.left = resolver.type_accumulator]>>
                       \o Rest
       ELSE LET left_type == Top.left
                right_type == resolver.type_accumulator
                t == resolve_binary_operation_type(left_type, right_type,
                                                   Top.node.operator)
                r1 == [resolver EXCEPT !.type_accumulator = t] IN
            /\ resolver' =
                 IF t = "Unresolved"
                 THEN report(r1, incompatible_binary_operation(left_type,
                                     right_type, Top.node.operator))
                 ELSE r1
            /\ kont' = Rest
    /\ UNCHANGED <<stage, panic>> /\ RKeep

\* visit_unary_operation, up to visit_expression(operand)
R_visit_unary_operation ==
    /\ Visiting("resolve", "expr", "UnaryOperation")
    /\ kont' = <<ExprFrame(Top.node.operand),
                 [op |-> "visit_unary_operation", node |-> Top.node]>>
               \o Rest
    /\ UNCHANGED <<resolver, stage, panic>> /\ RKeep

R_resume_unary_operation ==
    /\ Resuming("resolve", "visit_unary_operation")
    /\ LET operand_type == resolver.type_accumulator
           t == resolve_unary_operation_type(operand_type, Top.node.operator)
           r1 == [resolver EXCEPT !.type_accumulator = t] IN
       resolver' =
         IF t = "Unresolved"
         THEN report(r1, incompatible_unary_operation(operand_type,
                                                      Top.node.operator))
         ELSE r1
    /\ kont' = Rest
    /\ UNCHANGED <<stage, panic>> /\ RKeep

\* the for_each over the parameters of visit_function_definition
RECURSIVE define_parameters(_, _, _)
define_parameters(st, arguments, scope_id) ==
    IF arguments = <<>> THEN st
    ELSE define_parameters(
             define_variable(st, VariableSymbol(Head(arguments), "Unresolved"),
                             scope_id),
             Tail(arguments), scope_id)

\* visit_function_definition without the define_function before the body
R_visit_function_definition_unregistered ==
    /\ Visiting("resolve", "stmt", "FunctionDefinition")
    /\ LET r2 == [Resolver_enter_scope(resolver) EXCEPT
                      !.current_block_type = "FunctionBlock"] IN
       resolver' = [r2 EXCEPT !.symbols_table =
                       define_parameters(@, Top.node.arguments,
                                         r2.current_scope_id)]
    /\ kont' = <<StmtFrame(Top.node.body),
                 [op |-> "visit_function_definition", name |-> Top.node.name,
                  arguments |-> Top.node.arguments]>>
               \o Rest
    /\ UNCHANGED <<stage, panic>> /\ RKeep

\* visit_function_definition, up to visit_statement(body)
R_visit_function_definition ==
    /\ Visiting("resolve", "stmt", "FunctionDefinition")
    /\ LET r1 == [resolver EXCEPT !.symbols_table = define_function(@,
                      FunctionSymbol(Top.node.name, Top.node.arguments))]
           r2 == [Resolver_enter_scope(r1) EXCEPT
                      !.current_block_type = "FunctionBlock"] IN
       resolver' = [r2 EXCEPT !.symbols_table =
                       define_parameters(@, Top.node.arguments,
                                         r2.current_scope_id)]
    /\ kont' = <<StmtFrame(Top.node.body),
                 [op |-> "visit_function_definition", name |-> Top.node.name,
                  arguments |-> Top.node.arguments]>>
               \o Rest
    /\ UNCHANGED <<stage, panic>> /\ RKeep

\* visit_function_definition, the exit_scope after the body
R_resume_function_definition ==
    /\ Resuming("resolve", "visit_function_definition")
    /\ RExitOrPanic(resolver)
    /\ RKeep

\* visit_function_call, of a call statement or a call expression
R_visit_function_call ==
    /\ stage = "resolve" /\ kont # <<>>
    /\ Top.op \in {"stmt", "expr"} /\ Top.node.kind = "FunctionCall"
    /\ LET function_symbol == lookup_function(resolver.symbols_table,
                                              Top.node.function_name) IN
       resolver' =
         IF function_symbol # NoneV
         THEN IF Len(function_symbol.parameters) # Len(Top.node.arguments)
              THEN report(resolver, function_arguments_mismatch(
                              Top.node.function_name,
                              Len(function_symbol.parameters),
                              Len(Top.node.arguments)))
              ELSE resolver
         ELSE report(resolver, undefined_function(Top.node.function_name))
    /\ kont' = ExprFrames(Top.node.arguments) \o Rest
    /\ UNCHANGED <<stage, panic>> /\ RKeep

R_visit_return_statement ==
    /\ Visiting("resolve", "stmt", "ReturnStatement")
    /\ IF is_inside_block(resolver, "FunctionBlock")
       THEN /\ resolver' = resolver
            /\ kont' = (IF Top.node.expression # NoneV
                        THEN <<ExprFrame(Top.node.expression)>> ELSE <<>>)
                       \o Rest
       ELSE /\ resolver' = report(resolver, return_outside_function)
            /\ kont' = Rest
    /\ UNCHANGED <<stage, panic>> /\ RKeep

\* AstExplorer::visit_expression on Grouped: visit the inner expression
VisitGrouped ==
    /\ stage \in {"resolve", "interpret"} /\ kont # <<>>
    /\ Top.op = "expr" /\ Top.node.kind = "Grouped"
    /\ kont' = <<ExprFrame(Top.node.expression)>> \o Rest
    /\ UNCHANGED <<lexer, tokens, overflow_checks, stage, parser, ast, diagnostic,
                   resolver, interpreter, panic, trace>>

\* Interpreter::collect_functions
RECURSIVE collect_functions(_, _)
collect_functions(functions, statements) ==
    IF statements = <<>> THEN functions
    ELSE LET st == Head(statements) IN
         collect_functions(
             IF st.kind = "FunctionDefinition"
             THEN MapInsert(functions, st.name,
                            [parameters |-> st.arguments, body |-> st.body])
             ELSE functions,
             Tail(statements))

\* the end of Resolver::resolve and of Compiler::compile; on Ok, main calls
\* Interpreter::interpret, which collects the functions and explores the ast
ResolveEnd ==
    /\ stage = "resolve" /\ kont = <<>>
    /\ IF has_errors(resolver.diagnostics)
       THEN /\ stage' = "compile_failed"
            /\ UNCHANGED <<interpreter, kont>>
       ELSE /\ stage' = "interpret"
            /\ interpreter' = [Interpreter_new EXCEPT
                                  !.functions = collect_functions(@, ast)]
            /\ kont' = StmtFrames(ast)
    /\ UNCHANGED <<lexer, tokens, overflow_checks, parser, ast, diagnostic, resolver,
                   panic, trace>>

ResolveNext ==
    \/ R_visit_variable_declaration
    \/ R_define_variable
    \/ R_visit_variable_assignement
    \/ R_check_assignement
    \/ R_visit_if_statement
    \/ R_resume_if_statement
    \/ R_visit_while_statement
    \/ R_resume_while_statement
    \/ R_visit_for_statement
    \/ R_resume_for_statement
    \/ R_block_statement_on_enter
    \/ R_block_statement_on_exit
    \/ R_visit_number_expression
    \/ R_visit_boolean_expression
    \/ R_visit_variable_expression
    \/ R_visit_binary_operation
    \/ R_resume_binary_operation
    \/ R_visit_unary_operation
    \/ R_resume_unary_operation
    \/ R_visit_function_definition
    \/ R_resume_function_definition
    \/ R_visit_function_call
    \/ R_visit_return_statement
    \/ VisitGrouped
    \/ ResolveEnd

--------------------------------------------------------------------------
(* Runtime values and builtins (src/interpreter.rs,                       *)
(* src/interpreter/builtin.rs).  i64 arithmetic is scaled to IntBits: an  *)
(* out-of-range result panics when the build checks overflow and wraps    *)
(* otherwise.                                                              *)

RuntimeValue_Number(n) == [kind |-> "Number", value |-> n]
RuntimeValue_Bool(b) == [kind |-> "Bool", value |-> b]

BOk(v) == [status |-> "Ok", val |-> v]
BErr(e) == [status |-> "Err", err |-> e]

\* the i64 result n of an arithmetic operator
Arith(n) ==
    IF InRange(n) THEN BOk(RuntimeValue_Number(n))
    ELSE IF overflow_checks THEN BErr("arithmetic overflow")
    ELSE BOk(RuntimeValue_Number(Wrap(n)))

Abs(n) == IF n < 0 THEN -n ELSE n

\* i64 division truncates toward zero
TruncDiv(l, r) ==
    LET q == Abs(l) \div Abs(r) IN
    IF (l < 0) # (r < 0) THEN -q ELSE q

BothNumbers(left, right) == left.kind = "Number" /\ right.kind = "Number"
BothBools(left, right) == left.kind = "Bool" /\ right.kind = "Bool"

add(left, right) ==
    IF BothNumbers(left, right) THEN Arith(left.value + right.value)
    ELSE BErr("InvalidOperation")

sub(left, right) ==
    IF BothNumbers(left, right) THEN Arith(left.value - right.value)
    ELSE BErr("InvalidOperation")

mul(left, right) ==
    IF BothNumbers(left, right) THEN Arith(left.value * right.value)
    ELSE BErr("InvalidOperation")

\* i64::MIN / -1 panics in every build profile
\* div with a quotient of 0 for a divisor of 0
div_zero_quotient(left, right) ==
    IF BothNumbers(left, right)
    THEN IF right.value = 0 THEN BOk(RuntimeValue_Number(0))
         ELSE IF InRange(TruncDiv(left.value, right.value))
              THEN BOk(RuntimeValue_Number(TruncDiv(left.value, right.value)))
              ELSE BErr("arithmetic overflow")
    ELSE BErr("InvalidOperation")

div(left, right) ==
    IF BothNumbers(left, right)
    THEN IF right.value = 0 THEN BErr("DivisionByZero")
         ELSE IF InRange(TruncDiv(left.value, right.value))
              THEN BOk(RuntimeValue_Number(TruncDiv(left.value, right.value)))
              ELSE BErr("arithmetic overflow")
    ELSE BErr("InvalidOperation")

\* builtin::modulus is named by BINARY_OPERATORS but its body is not in
\* builtin.rs; it is taken to be the remainder of div
modulus(left, right) ==
    IF BothNumbers(left, right)
    THEN IF right.value = 0 THEN BErr("DivisionByZero")
         ELSE IF InRange(TruncDiv(left.value, right.value))
              THEN BOk(RuntimeValue_Number(
                       left.value - right.value * TruncDiv(left.value, right.value)))
              ELSE BErr("arithmetic overflow")
    ELSE BErr("InvalidOperation")

eq(left, right) ==
    IF BothNumbers(left, right) \/ BothBools(left, right)
    THEN BOk(RuntimeValue_Bool(left.value = right.value))
    ELSE BErr("InvalidOperation")

gt(left, right) ==
    IF BothNumbers(left, right) THEN BOk(RuntimeValue_Bool(left.value > right.value))
    ELSE BErr("InvalidOperation")

gt_eq(left, right) ==
    IF BothNumbers(left, right) THEN BOk(RuntimeValue_Bool(left.value >= right.value))
    ELSE BErr("InvalidOperation")

lt(left, right) ==
    IF BothNumbers(left, right) THEN BOk(RuntimeValue_Bool(left.value < right.value))
    ELSE BErr("InvalidOperation")

lt_eq(left, right) ==
    IF BothNumbers(left, right) THEN BOk(RuntimeValue_Bool(left.value <= right.value))
    ELSE BErr("InvalidOperation")

not_eq(left, right) ==
    IF BothNumbers(left, right) THEN BOk(RuntimeValue_Bool(left.value # right.value))
    ELSE BErr("InvalidOperation")

and(left, right) ==
    IF BothBools(left, right) THEN BOk(RuntimeValue_Bool(left.value /\ right.value))
    ELSE BErr("InvalidOperation")

or(left, right) ==
    IF BothBools(left, right) THEN BOk(RuntimeValue_Bool(left.value \/ right.value))
    ELSE BErr("InvalidOperation")

negate(value) ==
    IF value.kind = "Number" THEN Arith(-value.value)
    ELSE BErr("InvalidOperation")

not(value) ==
    IF value.kind = "Bool" THEN BOk(RuntimeValue_Bool(~value.value))
    ELSE BErr("InvalidOperation")

\* BINARY_OPERATORS through RuntimeFunctionsDispatcher
binary_operator_function(operator, left, right) ==
    CASE operator = "Add" -> add(left, right)
      [] operator = "Subtract" -> sub(left, right)
      [] operator = "Multiply" -> mul(left, right)
      [] operator = "Divide" -> div(left, right)
      [] operator = "Modulus" -> modulus(left, right)
      [] operator = "Equal" -> eq(left, right)
      [] operator = "NotEqual" -> not_eq(left, right)
      [] operator = "GreaterThan" -> gt(left, right)
      [] operator = "GreaterThanOrEqual" -> gt_eq(left, right)
      [] operator = "LessThan" -> lt(left, right)
      [] operator = "LessThanOrEqual" -> lt_eq(left, right)
      [] operator = "And" -> and(left, right)
      [] operator = "Or" -> or(left, right)

\* UNARY_OPERATORS through RuntimeFunctionsDispatcher
unary_operator_function(operator, value) ==
    IF operator = "Negate" THEN negate(value) ELSE not(value)

\* RuntimeError as report_error prints it
report_error(err) ==
    CASE err = "DivisionByZero" -> "Error: Division by zero"
      [] err = "InvalidCondition" -> "Error: condition in if block must be a boolean"
      [] err = "InvalidOperation" -> "Error: invalid operation"
      [] err = "VariableNotFound" -> "Variable not found"
      [] OTHER -> err

push_scope(i) == [i EXCEPT !.scopes = Append(@, EmptyMap)]

\* pop_scope leaving the scopes as they are
pop_scope_nothing(i) == i

pop_scope(i) ==
    [i EXCEPT !.scopes = IF @ = <<>> THEN @ ELSE SubSeq(@, 1, Len(@) - 1)]

\* a register_variable that overwrites the innermost binding of the name when
\* one is visible, as set_variable_value does
register_variable_visible(i, name, value) ==
    LET binding == {j \in 1..Len(i.scopes) : name \in DOMAIN i.scopes[j]}
        target == IF binding = {} THEN Len(i.scopes)
                  ELSE CHOOSE j \in binding : \A k \in binding : k <= j IN
    [i EXCEPT !.scopes[target] = MapInsert(@, name, value)]

\* scopes.last_mut().unwrap().set_variable(name, value)
register_variable(i, name, value) ==
    [i EXCEPT !.scopes[Len(i.scopes)] = MapInsert(@, name, value)]

\* scopes.iter().rev().find(..): the innermost scope that binds name, 0 if none
find_scope(scopes, name) ==
    LET binding == {j \in 1..Len(scopes) : name \in DOMAIN scopes[j]} IN
    IF binding = {} THEN 0
    ELSE CHOOSE j \in binding : \A k \in binding : k <= j

\* set_variable_value writing to the last scope, as register_variable does
set_variable_value_in_last_scope(i, name, value) ==
    [i EXCEPT !.scopes[Len(i.scopes)] = MapInsert(@, name, value)]

\* Interpreter::set_variable_value, when a scope binds name
set_variable_value(i, name, value) ==
    [i EXCEPT !.scopes[find_scope(i.scopes, name)] = MapInsert(@, name, value)]

\* Interpreter::get_variable, when a scope binds name
get_variable(i, name) == i.scopes[find_scope(i.scopes, name)][name]

--------------------------------------------------------------------------
(* Interpreter (src/interpreter.rs) as an AstExplorer *)

IKeep == UNCHANGED <<lexer, tokens, overflow_checks, parser, ast, diagnostic, resolver>>

\* a panic!() ends the process
IPanic(msg) ==
    /\ stage' = "panicked"
    /\ panic' = msg
    /\ UNCHANGED <<interpreter, kont, trace>>

\* the step goes on with interpreter i1 and control stack k1
IStep(i1, k1) ==
    /\ interpreter' = i1
    /\ kont' = k1
    /\ UNCHANGED <<stage, panic, trace>>

\* get_accumulator_value: the slot after take()
Taken == [interpreter EXCEPT !.accumulator = NoneV]

I_visit_variable_declaration ==
    /\ Visiting("interpret", "stmt", "VariableDeclaration")
    /\ IStep(interpreter,
             <<ExprFrame(Top.node.value),
               [op |-> "visit_variable_declaration", name |-> Top.node.name]>>
             \o Rest)
    /\ IKeep

\* visit_variable_declaration after the value's visit
I_register_variable ==
    /\ Resuming("interpret", "visit_variable_declaration")
    /\ IF interpreter.accumulator = NoneV
       THEN IPanic("Expression unevaluated")
       ELSE IStep(register_variable(Taken, Top.name, interpreter.accumulator), Rest)
    /\ IKeep

I_visit_variable_assignement ==
    /\ Visiting("interpret", "stmt", "VariableAssignment")
    /\ IStep(interpreter,
             <<ExprFrame(Top.node.value),
               [op |-> "visit_variable_assignement", name |-> Top.node.name]>>
             \o Rest)
    /\ IKeep

\* visit_variable_assignement after the value's visit
I_set_variable_value ==
    /\ Resuming("interpret", "visit_variable_assignement")
    /\ IF interpreter.accumulator = NoneV
       THEN IPanic("Expression unevaluated")
       ELSE IF find_scope(interpreter.scopes, Top.name) = 0
       THEN IPanic(report_error("VariableNotFound"))
       ELSE IStep(set_variable_value(Taken, Top.name, interpreter.accumulator), Rest)
    /\ IKeep

I_visit_number_expression ==
    /\ Visiting("interpret", "expr", "Number")
    /\ IStep([interpreter EXCEPT !.accumulator = RuntimeValue_Number(Top.node.value)],
             Rest)
    /\ IKeep

I_visit_boolean_expression ==
    /\ Visiting("interpret", "expr", "Boolean")
    /\ IStep([interpreter EXCEPT !.accumulator = RuntimeValue_Bool(Top.node.value)],
             Rest)
    /\ IKeep

I_visit_variable_expression ==
    /\ Visiting("interpret", "expr", "Variable")
    /\ IF find_scope(interpreter.scopes, Top.node.name) = 0
       THEN IPanic(report_error("VariableNotFound"))
       ELSE IStep([interpreter EXCEPT !.accumulator =
                       get_variable(interpreter, Top.node.name)], Rest)
    /\ IKeep

I_visit_binary_operation ==
    /\ Visiting("interpret", "expr", "BinaryOperation")
    /\ IStep(interpreter,
             <<ExprFrame(Top.node.left),
               [op |-> "visit_binary_operation", pc |-> 1, node |-> Top.node,
                left |-> NoneV]>>
             \o Rest)
    /\ IKeep

\* visit_binary_operation: pc 1 after the left operand, pc 2 after the right
I_resume_binary_operation ==
    /\ Resuming("interpret", "visit_binary_operation")
    /\ IF interpreter.accumulator = NoneV
       THEN IPanic("Expression unevaluated")
       ELSE IF Top.pc = 1
       THEN IStep(Taken,
                  <<ExprFrame(Top.node.right),
                    [Top EXCEPT !.pc = 2, !.left = interpreter.accumulator]>>
                  \o Rest)
       ELSE LET r == binary_operator_function(Top.node.operator, Top.left,
                                              interpreter.accumulator) IN
            IF r.status = "Ok"
            THEN IStep([interpreter EXCEPT !.accumulator = r.val], Rest)
            ELSE IPanic(report_error(r.err))
    /\ IKeep

I_visit_unary_operation ==
    /\ Visiting("interpret", "expr", "UnaryOperation")
    /\ IStep(interpreter,
             <<ExprFrame(Top.node.operand),
               [op |-> "visit_unary_operation", node |-> Top.node]>>
             \o Rest)
    /\ IKeep

I_resume_unary_operation ==
    /\ Resuming("interpret", "visit_unary_operation")
    /\ IF interpreter.accumulator = NoneV
       THEN IPanic("Expression unevaluated")
       ELSE LET r == unary_operator_function(Top.node.operator,
                                             interpreter.accumulator) IN
            IF r.status = "Ok"
            THEN IStep([interpreter EXCEPT !.accumulator = r.val], Rest)
            ELSE IPanic(report_error(r.err))
    /\ IKeep

I_visit_if_statement ==
    /\ Visiting("interpret", "stmt", "IfStatement")
    /\ IStep(interpreter,
             <<ExprFrame(Top.node.condition),
               [op |-> "visit_if_statement", node |-> Top.node]>>
             \o Rest)
    /\ IKeep

\* visit_if_statement after the condition's visit
I_resume_if_statement ==
    /\ Resuming("interpret", "visit_if_statement")
    /\ IF interpreter.accumulator = NoneV
       THEN IPanic("Expression unevaluated")
       ELSE IF interpreter.accumulator.kind # "Bool"
       THEN IPanic(report_error("InvalidCondition"))
       ELSE IF interpreter.accumulator.value
       THEN IStep(Taken, <<StmtFrame(Top.node.then_branch)>> \o Rest)
       ELSE IF Top.node.else_branch # NoneV
       THEN IStep(Taken, <<StmtFrame(Top.node.else_branch)>> \o Rest)
       ELSE IStep(Taken, Rest)
    /\ IKeep

I_block_statement_on_enter ==
    /\ Visiting("interpret", "stmt", "BlockStatement")
    /\ IStep(push_scope(interpreter),
             StmtFrames(Top.node.statements) \o <<[op |-> "block_exit"]>> \o Rest)
    /\ IKeep

I_block_statement_on_exit ==
    /\ Resuming("interpret", "block_exit")
    /\ IStep(pop_scope(interpreter), Rest)
    /\ IKeep

\* visit_while_statement: the visit of the condition that opens each round
I_visit_while_statement ==
    /\ Visiting("interpret", "stmt", "WhileStatement")
    /\ IStep(interpreter,
             <<ExprFrame(Top.node.condition),
               [op |-> "visit_while_statement", node |-> Top.node]>>
             \o Rest)
    /\ IKeep

\* visit_while_statement after the condition's visit: the body and the
\* condition again, or break
I_resume_while_statement ==
    /\ Resuming("interpret", "visit_while_statement")
    /\ IF interpreter.accumulator = NoneV
       THEN IPanic("Expression unevaluated")
       ELSE IF interpreter.accumulator.kind # "Bool"
       THEN IPanic(report_error("InvalidCondition"))
       ELSE IF interpreter.accumulator.value
       THEN IStep(Taken,
                  <<StmtFrame(Top.node.body), ExprFrame(Top.node.condition), Top>>
                  \o Rest)
       ELSE IStep(Taken, Rest)
    /\ IKeep

I_visit_for_statement ==
    /\ Visiting("interpret", "stmt", "ForStatement")
    /\ IStep(interpreter,
             <<ExprFrame(Top.node.start),
               [op |-> "visit_for_statement", pc |-> 1, node |-> Top.node,
                start_value |-> NoneV, end_value |-> NoneV, step_value |-> NoneV]>>
             \o Rest)
    /\ IKeep

\* the head of the loop of visit_for_statement, in interpreter state i with
\* activation f: break and pop the scope, or visit the body once more
ForLoopHead(i, f) ==
    IF find_scope(i.scopes, f.node.variable) = 0
    THEN IPanic(report_error("VariableNotFound"))
    ELSE LET current_value == get_variable(i, f.node.variable)
             exit == gt(current_value, f.end_value) IN
         IF exit.status = "Err"
         THEN IPanic(report_error(exit.err))
         ELSE IF exit.val.value
         THEN IStep(pop_scope(i), Rest)
         ELSE /\ Len(trace) < MaxTrace
              /\ interpreter' = i
              /\ kont' = <<StmtFrame(f.node.body), [f EXCEPT !.pc = 4]>> \o Rest
              /\ trace' = Append(trace, [variable |-> f.node.variable,
                                         value |-> current_value])
              /\ UNCHANGED <<stage, panic>>

\* push_scope and register the loop variable, then the head of the loop
ForEnterLoop(i, f) ==
    ForLoopHead(register_variable(push_scope(i), f.node.variable, f.start_value), f)

\* visit_for_statement after a visit returned: pc 1 after start, pc 2 after
\* end, pc 3 after step, pc 4 after the body
I_resume_for_statement ==
    /\ Resuming("interpret", "visit_for_statement")
    /\ CASE Top.pc = 1 ->
              IF interpreter.accumulator = NoneV
              THEN IPanic("Expression unevaluated")
              ELSE IStep(Taken,
                         <<ExprFrame(Top.node.end),
                           [Top EXCEPT !.pc = 2,
                                       !.start_value = interpreter.accumulator]>>
                         \o Rest)
         [] Top.pc = 2 ->
              IF interpreter.accumulator = NoneV
              THEN IPanic("Expression unevaluated")
              ELSE IF Top.node.step # NoneV
              THEN IStep(Taken,
                         <<ExprFrame(Top.node.step),
                           [Top EXCEPT !.pc = 3,
                                       !.end_value = interpreter.accumulator]>>
                         \o Rest)
              ELSE ForEnterLoop(Taken,
                       [Top EXCEPT !.end_value = interpreter.accumulator,
                                   !.step_value = RuntimeValue_Number(1)])
         [] Top.pc = 3 ->
              IF interpreter.accumulator = NoneV
              THEN IPanic("Expression unevaluated")
              ELSE ForEnterLoop(Taken,
                       [Top EXCEPT !.step_value = interpreter.accumulator])
         [] Top.pc = 4 ->
              IF find_scope(interpreter.scopes, Top.node.variable) = 0
              THEN IPanic(report_error("VariableNotFound"))
              ELSE LET new_value == add(get_variable(interpreter, Top.node.variable),
                                        Top.step_value) IN
                   IF new_value.status = "Err"
                   THEN IPanic(report_error(new_value.err))
                   ELSE ForLoopHead(set_variable_value(interpreter,
                                        Top.node.variable, new_value.val), Top)
    /\ IKeep

I_visit_function_definition ==
    /\ Visiting("interpret", "stmt", "FunctionDefinition")
    /\ IStep(interpreter, Rest)
    /\ IKeep

\* the for loop of call_function over parameters.zip(arguments): visit the
\* next argument, or visit the body when the zip is exhausted
CallBind(i, function_info, parameters, arguments) ==
    IF parameters = <<>> \/ arguments = <<>>
    THEN IStep(i, <<StmtFrame(function_info.body),
                    [op |-> "call_function", pc |-> 2]>> \o Rest)
    ELSE IStep(i, <<ExprFrame(Head(arguments)),
                    [op |-> "call_function", pc |-> 1,
                     function_info |-> function_info,
                     parameters |-> parameters, arguments |-> arguments]>>
                  \o Rest)

\* visit_function_call, of a call statement or a call expression, up to the
\* first visit inside call_function
I_visit_function_call ==
    /\ stage = "interpret" /\ kont # <<>>
    /\ Top.op \in {"stmt", "expr"} /\ Top.node.kind = "FunctionCall"
    /\ LET function_info == MapGet(interpreter.functions, Top.node.function_name) IN
       IF function_info # NoneV
       THEN /\ Len(interpreter.scopes) < MaxScopes
            /\ CallBind(push_scope(interpreter), function_info,
                        function_info.parameters, Top.node.arguments)
       ELSE IStep(interpreter, Rest)
    /\ IKeep

\* call_function after a visit returned: pc 1 after an argument, pc 2 after
\* the body
I_resume_call_function ==
    /\ Resuming("interpret", "call_function")
    /\ IF Top.pc = 1
       THEN IF interpreter.accumulator = NoneV
            THEN IPanic("Expression unevaluated")
            ELSE CallBind(register_variable(Taken, Head(Top.parameters),
                                            interpreter.accumulator),
                          Top.function_info, Tail(Top.parameters),
                          Tail(Top.arguments))
       ELSE IStep(pop_scope(interpreter), Rest)
    /\ IKeep

\* a return statement reached by the interpreter: interpreter.rs has no hook
\* for it and call_function takes no value from the body
I_visit_return_statement ==
    /\ Visiting("interpret", "stmt", "ReturnStatement")
    /\ IStep(interpreter, Rest)
    /\ IKeep

\* explore_ast has returned: display_state, and main ends
InterpretEnd ==
    /\ stage = "interpret" /\ kont = <<>>
    /\ stage' = "finished"
    /\ UNCHANGED <<lexer, tokens, overflow_checks, parser, ast, diagnostic, resolver,
                   interpreter, kont, panic, trace>>

InterpretNext ==
    \/ I_visit_variable_declaration
    \/ I_register_variable
    \/ I_visit_variable_assignement
    \/ I_set_variable_value
    \/ I_visit_number_expression
    \/ I_visit_boolean_expression
    \/ I_visit_variable_expression
    \/ I_visit_binary_operation
    \/ I_resume_binary_operation
    \/ I_visit_unary_operation
    \/ I_resume_unary_operation
    \/ I_visit_if_statement
    \/ I_resume_if_statement
    \/ I_block_statement_on_enter
    \/ I_block_statement_on_exit
    \/ I_visit_while_statement
    \/ I_resume_while_statement
    \/ I_visit_for_statement
    \/ I_resume_for_statement
    \/ I_visit_function_definition
    \/ I_visit_function_call
    \/ I_resume_call_function
    \/ I_visit_return_statement
    \/ InterpretEnd

ParseNext == ParseStatementOk \/ ParseStatementErr \/ ParsePanic \/ ParseEnd

--------------------------------------------------------------------------
(* Source programs, as the token streams the lexer produces for them *)

E_num(n) == IF n < 0 THEN <<TMinus, TNum(-n)>> ELSE <<TNum(n)>>
E_var(c) == <<TId(c)>>
E_bin(l, op_token, r) == l \o <<op_token>> \o r
E_group(e) == <<TLParen>> \o e \o <<TRParen>>

RECURSIVE Commas(_)
Commas(items) ==
    IF items = <<>> THEN <<>>
    ELSE IF Len(items) = 1 THEN Head(items)
    ELSE Head(items) \o <<TComma>> \o Commas(Tail(items))

E_call(f, args) == <<TId(f), TLParen>> \o Commas(args) \o <<TRParen>>

S_let(c, e) == <<TLet, TId(c), TBe>> \o e
S_set(c, e) == <<TSet, TId(c), TTo>> \o e
S_if(c, body) == <<TIf>> \o c \o <<TThen>> \o body \o <<TEnd>>
S_if_else(c, body, else_body) ==
    <<TIf>> \o c \o <<TThen>> \o body \o <<TElse>> \o else_body \o <<TEnd>>
S_while(c, body) == <<TWhile>> \o c \o <<TDo>> \o body \o <<TEnd>>
S_for(c, s, e, body) ==
    <<TFor, TId(c), TFrom>> \o s \o <<TTo>> \o e \o <<TDo>> \o body \o <<TEnd>>
S_for_step(c, s, e, k, body) ==
    <<TFor, TId(c), TFrom>> \o s \o <<TTo>> \o e \o <<TStep>> \o k
    \o <<TDo>> \o body \o <<TEnd>>
S_define(f, params, body) ==
    <<TDefine, TFunction, TId(f)>>
    \o (IF params = <<>> THEN <<>> ELSE <<TWith>> \o Commas(params))
    \o <<TAs>> \o body \o <<TEnd>>
S_return(e) == <<TReturn>> \o E_group(e)

Program(toks) == toks \o <<TEof>>

\* for i from s to e [step k] do set n to n + 1 end; k = 0 stands for an
\* omitted step
ForStarts == {-1, 1, 3, IntMax - 1}
ForEnds == {0, 3, 5, IntMax}
ForSteps == {0, 1, 2}

CountBody == S_set("n", E_bin(E_var("n"), TPlus, E_num(1)))

ForProgram(s, e, k) ==
    Program(S_let("n", E_num(0))
            \o (IF k = 0
                THEN S_for("i", E_num(s), E_num(e), CountBody)
                ELSE S_for_step("i", E_num(s), E_num(e), E_num(k), CountBody)))

ForPrograms == {ForProgram(s, e, k) : s \in ForStarts, e \in ForEnds, k \in ForSteps}

\* for i from s to e step k do set n to n + 1 end, with the step written out:
\* zero, negative and positive steps
StepStarts == {1, 3, IntMin + 1}
StepEnds == {0, 3, IntMax}
StepValues == {-2, -1, 0, 2}

ForStepProgram(s, e, k) ==
    Program(S_let("n", E_num(0))
            \o S_for_step("i", E_num(s), E_num(e), E_num(k), CountBody))

StepPrograms ==
    {ForStepProgram(s, e, k) : s \in StepStarts, e \in StepEnds, k \in StepValues}

ETrue == <<TTrue>>
EFalse == <<TFalse>>

\* let x be 1  let y be 2  set x to x + y
P_sample ==
    Program(S_let("x", E_num(1)) \o S_let("y", E_num(2))
            \o S_set("x", E_bin(E_var("x"), TPlus, E_var("y"))))

\* let x be 1  if true then let y be 2  set x to x + y  set y to 0 end
P_nested_set ==
    Program(S_let("x", E_num(1))
            \o S_if(ETrue, S_let("y", E_num(2))
                           \o S_set("x", E_bin(E_var("x"), TPlus, E_var("y")))
                           \o S_set("y", E_num(0))))

\* let x be 1  if true then let x be 5
\*   while not (x == 7) do set x to x + 1 end end
P_shadow_set ==
    Program(S_let("x", E_num(1))
            \o S_if(ETrue, S_let("x", E_num(5))
                           \o S_while(<<TNot>> \o E_group(E_bin(E_var("x"), TEqEq, E_num(7))),
                                      S_set("x", E_bin(E_var("x"), TPlus, E_num(1))))))

\* let b be not false  let m be -3  if b == true then set m to m * 2
\* else set m to 0 end  let g be (m / 0)
P_operators ==
    Program(S_let("b", <<TNot, TFalse>>) \o S_let("m", E_num(-3))
            \o S_if_else(E_bin(E_var("b"), TEqEq, ETrue),
                         S_set("m", E_bin(E_var("m"), TStar, E_num(2))),
                         S_set("m", E_num(0)))
            \o S_let("g", E_group(E_bin(E_var("m"), TSlash, E_num(0)))))

AssignPrograms == {P_sample, P_nested_set, P_shadow_set, P_operators}

\* define function g with a as return (a) end  let x be g(5)
P_id_call ==
    Program(S_define("g", <<E_var("a")>>, S_return(E_var("a")))
            \o S_let("x", E_call("g", <<E_num(5)>>)))

\* define function f with a, b as return (a + b) end  let a be f(5, 7)
P_add_call ==
    Program(S_define("f", <<E_var("a"), E_var("b")>>,
                     S_return(E_bin(E_var("a"), TPlus, E_var("b"))))
            \o S_let("a", E_call("f", <<E_num(5), E_num(7)>>)))

\* define function g as let t be 1  return (2) end  g()  let x be 3
P_call_statement ==
    Program(S_define("g", <<>>, S_let("t", E_num(1)) \o S_return(E_num(2)))
            \o E_call("g", <<>>) \o S_let("x", E_num(3)))

\* define function f with p, q as let c be q end  let a be 1  f(5, a)
P_arguments ==
    Program(S_define("f", <<E_var("p"), E_var("q")>>, S_let("c", E_var("q")))
            \o S_let("a", E_num(1))
            \o E_call("f", <<E_num(5), E_var("a")>>))

\* define function f with a, b as let c be b end  let a be 1  f(5, a)
P_argument_named_as_parameter ==
    Program(S_define("f", <<E_var("a"), E_var("b")>>, S_let("c", E_var("b")))
            \o S_let("a", E_num(1))
            \o E_call("f", <<E_num(5), E_var("a")>>))

\* define function f with p, q as let c be q end
\* let a be 1  if true then let a be 2  f(a, a) end
P_arguments_in_block ==
    Program(S_define("f", <<E_var("p"), E_var("q")>>, S_let("c", E_var("q")))
            \o S_let("a", E_num(1))
            \o S_if(ETrue, S_let("a", E_num(2))
                           \o E_call("f", <<E_var("a"), E_var("a")>>)))

\* let x be 1  define function f as set x to 10 end  f()
P_global_from_function ==
    Program(S_let("x", E_num(1))
            \o S_define("f", <<>>, S_set("x", E_num(10)))
            \o E_call("f", <<>>))

\* let x be 1  define function f as set x to 10 end
\* if true then let x be 2  f() end
P_assignment_in_function ==
    Program(S_let("x", E_num(1))
            \o S_define("f", <<>>, S_set("x", E_num(10)))
            \o S_if(ETrue, S_let("x", E_num(2)) \o E_call("f", <<>>)))

\* let x be 1  define function f as let r be x end
\* if true then let x be 2  f() end
P_reference_in_function ==
    Program(S_let("x", E_num(1))
            \o S_define("f", <<>>, S_let("r", E_var("x")))
            \o S_if(ETrue, S_let("x", E_num(2)) \o E_call("f", <<>>)))

CallPrograms ==
    {P_id_call, P_add_call, P_call_statement, P_arguments,
     P_argument_named_as_parameter, P_arguments_in_block,
     P_global_from_function, P_assignment_in_function, P_reference_in_function}

\* let x be 1  let x be 2
P_redefinition == Program(S_let("x", E_num(1)) \o S_let("x", E_num(2)))

\* let x be 1  if true then let x be 2 end
P_shadow == Program(S_let("x", E_num(1)) \o S_if(ETrue, S_let("x", E_num(2))))

\* if true then let x be 1  let x be 2 else let x be 3 end  let x be 4
P_redefinition_inner ==
    Program(S_if_else(ETrue, S_let("x", E_num(1)) \o S_let("x", E_num(2)),
                      S_let("x", E_num(3)))
            \o S_let("x", E_num(4)))

\* for i from 1 to 2 do let i be 0  let i be 1 end
P_shadow_loop_variable ==
    Program(S_for("i", E_num(1), E_num(2),
                  S_let("i", E_num(0)) \o S_let("i", E_num(1))))

\* define function f with a as let a be 1 end  let a be 2
P_parameter_redefinition ==
    Program(S_define("f", <<E_var("a")>>, S_let("a", E_num(1)))
            \o S_let("a", E_num(2)))

DeclarationPrograms ==
    {P_redefinition, P_shadow, P_redefinition_inner, P_shadow_loop_variable,
     P_parameter_redefinition}

\* let x be 1  if true then set x to 2  let x be 3  set x to 4 end  let y be x
P_shadow_after_assignment ==
    Program(S_let("x", E_num(1))
            \o S_if(ETrue, S_set("x", E_num(2)) \o S_let("x", E_num(3))
                           \o S_set("x", E_num(4)))
            \o S_let("y", E_var("x")))

\* let x be 1  if true then let x be 2  if true then let x be 3 end
\*   set x to x + 5 end
P_shadow_twice ==
    Program(S_let("x", E_num(1))
            \o S_if(ETrue, S_let("x", E_num(2))
                           \o S_if(ETrue, S_let("x", E_num(3)))
                           \o S_set("x", E_bin(E_var("x"), TPlus, E_num(5)))))

\* let x be 0  while not (x == 2) do set x to x + 1  let x be 9 end
P_shadow_in_loop ==
    Program(S_let("x", E_num(0))
            \o S_while(<<TNot>> \o E_group(E_bin(E_var("x"), TEqEq, E_num(2))),
                       S_set("x", E_bin(E_var("x"), TPlus, E_num(1)))
                       \o S_let("x", E_num(9))))

\* let x be 1  define function f as let x be 2 end  f()  if true then f() end
P_shadow_in_function ==
    Program(S_let("x", E_num(1))
            \o S_define("f", <<>>, S_let("x", E_num(2)))
            \o E_call("f", <<>>)
            \o S_if(ETrue, E_call("f", <<>>)))

\* if true then let x be 1 end  let x be 2
P_declaration_after_block ==
    Program(S_if(ETrue, S_let("x", E_num(1))) \o S_let("x", E_num(2)))

ShadowPrograms ==
    {P_shadow_after_assignment, P_shadow_twice, P_shadow_in_loop,
     P_shadow_in_function, P_declaration_after_block}

\* set z to 1
P_undefined_assignment == Program(S_set("z", E_num(1)))

\* let x be z
P_undefined_reference == Program(S_let("x", E_var("z")))

\* if true then let z be 1 end  let y be z
P_reference_after_if ==
    Program(S_if(ETrue, S_let("z", E_num(1))) \o S_let("y", E_var("z")))

\* if true then let z be 1 end  set z to 2
P_assignment_after_if ==
    Program(S_if(ETrue, S_let("z", E_num(1))) \o S_set("z", E_num(2)))

\* let x be 1  while x == 1 do if true then set x to x + 1  let y be x end end
P_outer_from_inner ==
    Program(S_let("x", E_num(1))
            \o S_while(E_bin(E_var("x"), TEqEq, E_num(1)),
                       S_if(ETrue, S_set("x", E_bin(E_var("x"), TPlus, E_num(1)))
                                   \o S_let("y", E_var("x")))))

\* for i from 1 to 2 do let y be i end  set i to 0
P_loop_variable_after_loop ==
    Program(S_for("i", E_num(1), E_num(2), S_let("y", E_var("i")))
            \o S_set("i", E_num(0)))

ScopePrograms ==
    {P_undefined_assignment, P_undefined_reference, P_reference_after_if,
     P_assignment_after_if, P_outer_from_inner, P_loop_variable_after_loop}

\* define function f with a, b as end, then a call f(..) with n arguments,
\* as a statement or as the value of a declaration
ArgumentCounts == 0..3

RECURSIVE Ones(_)
Ones(n) == IF n = 0 THEN <<>> ELSE <<E_num(1)>> \o Ones(n - 1)

P_call_with(n, as_expression) ==
    Program(S_define("f", <<E_var("a"), E_var("b")>>, <<>>)
            \o (IF as_expression THEN S_let("x", E_bin(E_num(1), TPlus, E_call("f", Ones(n))))
                ELSE E_call("f", Ones(n))))

\* h(1): no function h
P_undefined_function == Program(E_call("h", Ones(1)))

ArityPrograms ==
    {P_call_with(n, e) : n \in ArgumentCounts, e \in BOOLEAN}
    \cup {P_undefined_function}

\* return (1)
P_return_top_level == Program(S_return(E_num(1)))

\* define function f with a as
\*   if true then while false do for i from 1 to 2 do return (a) end end
\*   else return (1) end
\*   return (2)
\* end
P_return_nested ==
    Program(S_define("f", <<E_var("a")>>,
                S_if_else(ETrue,
                          S_while(<<TFalse>>,
                                  S_for("i", E_num(1), E_num(2), S_return(E_var("a")))),
                          S_return(E_num(1)))
                \o S_return(E_num(2))))

\* define function f as return (1) end  if true then return (2) end
P_return_after_function ==
    Program(S_define("f", <<>>, S_return(E_num(1)))
            \o S_if(ETrue, S_return(E_num(2))))

\* while false do return (1) end  define function f as end
\* for i from 1 to 2 do return (1) end
P_return_in_loops ==
    Program(S_while(<<TFalse>>, S_return(E_num(1)))
            \o S_define("f", <<>>, <<>>)
            \o S_for("i", E_num(1), E_num(2), S_return(E_num(1))))

\* define function f as define function g as return (1) end return (2) end
\* return (3)
P_return_nested_function ==
    Program(S_define("f", <<>>, S_define("g", <<>>, S_return(E_num(1)))
                                \o S_return(E_num(2)))
            \o S_return(E_num(3)))

ReturnPrograms ==
    {P_return_top_level, P_return_nested, P_return_after_function,
     P_return_in_loops, P_return_nested_function}

BinaryOperatorTokens ==
    {TPlus, TMinus, TStar, TSlash, TPercent, TEqEq, TNotEq, TLt, TGt, TLe, TGe,
     TAnd, TOr}

\* let x be a op1 b op2 c
P_chain(op1, op2) ==
    Program(S_let("x", E_bin(E_bin(E_var("a"), op1, E_var("b")), op2, E_var("c"))))

\* let x be (a op1 b) op2 c
P_grouped(op1, op2) ==
    Program(S_let("x", E_bin(E_group(E_bin(E_var("a"), op1, E_var("b"))), op2,
                             E_var("c"))))

\* the operator tokens by precedence band: or, and, the comparisons, the
\* additive and the multiplicative operators
OperatorBands ==
    {{TOr}, {TAnd}, {TEqEq, TNotEq, TLt, TGt, TLe, TGe}, {TPlus, TMinus},
     {TStar, TSlash, TPercent}}

\* let x be a op1 b op2 c op3 d
P_chain_of_three(op1, op2, op3) ==
    Program(S_let("x", E_bin(E_bin(E_bin(E_var("a"), op1, E_var("b")), op2,
                                   E_var("c")), op3, E_var("d"))))

\* let x be a op b op c op d op e
P_chain_of_four(op) ==
    Program(S_let("x", E_bin(E_bin(E_bin(E_bin(E_var("a"), op, E_var("b")), op,
                                         E_var("c")), op, E_var("d")), op,
                             E_var("e"))))

PrecedencePrograms ==
    {P_chain(op1, op2) : op1 \in BinaryOperatorTokens, op2 \in BinaryOperatorTokens}
    \cup {P_grouped(op1, op2) : op1 \in BinaryOperatorTokens,
                                op2 \in BinaryOperatorTokens}
    \cup UNION {{P_chain_of_three(op1, op2, op3) :
                    op1 \in band, op2 \in band, op3 \in band} :
                band \in OperatorBands}
    \cup {P_chain_of_four(op) : op \in BinaryOperatorTokens}

UnaryOperatorTokens == {TMinus, TNot, TBang}

E_unary(op_token, e) == <<op_token>> \o e

\* let x be u1 u2 5
P_nested_unary(u1, u2) == Program(S_let("x", E_unary(u1, E_unary(u2, E_num(5)))))

\* let x be u a op b
P_unary_left(u, op) ==
    Program(S_let("x", E_bin(E_unary(u, E_var("a")), op, E_var("b"))))

\* let x be a op u b
P_unary_right(u, op) ==
    Program(S_let("x", E_bin(E_var("a"), op, E_unary(u, E_var("b")))))

UnaryPrograms ==
    {P_nested_unary(u1, u2) : u1 \in UnaryOperatorTokens, u2 \in UnaryOperatorTokens}
    \cup {P_unary_left(u, op) : u \in UnaryOperatorTokens, op \in BinaryOperatorTokens}
    \cup {P_unary_right(u, op) : u \in UnaryOperatorTokens,
                                 op \in BinaryOperatorTokens}

\* let r be 1 / 0  let z be 5
P_division_by_zero ==
    Program(S_let("r", E_bin(E_num(1), TSlash, E_num(0))) \o S_let("z", E_num(5)))

\* let a be 1  set a to a / 0  set a to 7
P_division_by_zero_assignment ==
    Program(S_let("a", E_num(1))
            \o S_set("a", E_bin(E_var("a"), TSlash, E_num(0)))
            \o S_set("a", E_num(7)))

\* let d be 0  let r be 4 / d  let z be 5
P_division_by_zero_variable ==
    Program(S_let("d", E_num(0))
            \o S_let("r", E_bin(E_num(4), TSlash, E_var("d")))
            \o S_let("z", E_num(5)))

\* let r be 8 / (2 - 2) + 1
P_division_by_zero_computed ==
    Program(S_let("r", E_bin(E_bin(E_num(8), TSlash,
                                   E_group(E_bin(E_num(2), TMinus, E_num(2)))),
                             TPlus, E_num(1))))

\* let r be 1  if true then let s be 2  set r to 6 / 0 end  set r to 2
P_division_by_zero_in_block ==
    Program(S_let("r", E_num(1))
            \o S_if(ETrue, S_let("s", E_num(2))
                           \o S_set("r", E_bin(E_num(6), TSlash, E_num(0))))
            \o S_set("r", E_num(2)))

\* let r be 7 / 2  let q be 0 / 4  let n be -7 / 2
P_division ==
    Program(S_let("r", E_bin(E_num(7), TSlash, E_num(2)))
            \o S_let("q", E_bin(E_num(0), TSlash, E_num(4)))
            \o S_let("n", E_bin(E_num(-7), TSlash, E_num(2))))

DivisionPrograms ==
    {P_division_by_zero, P_division_by_zero_assignment,
     P_division_by_zero_variable, P_division_by_zero_computed,
     P_division_by_zero_in_block, P_division}

\* let x be 1  g()  define function g as set x to 5 end
P_forward_call ==
    Program(S_let("x", E_num(1))
            \o E_call("g", <<>>)
            \o S_define("g", <<>>, S_set("x", E_num(5))))

\* let x be 1  define function g as set x to 5 end  g()
P_call_after_definition ==
    Program(S_let("x", E_num(1))
            \o S_define("g", <<>>, S_set("x", E_num(5)))
            \o E_call("g", <<>>))

\* let x be 1  if true then define function g as set x to 5 end end  g()
P_function_in_block ==
    Program(S_let("x", E_num(1))
            \o S_if(ETrue, S_define("g", <<>>, S_set("x", E_num(5))))
            \o E_call("g", <<>>))

\* let x be 1
\* define function f as define function g as set x to 5 end end  g()
P_function_in_function ==
    Program(S_let("x", E_num(1))
            \o S_define("f", <<>>, S_define("g", <<>>, S_set("x", E_num(5))))
            \o E_call("g", <<>>))

\* let x be 1  define function g as set x to 5 end
\* define function g as set x to 7 end  g()
P_function_defined_twice ==
    Program(S_let("x", E_num(1))
            \o S_define("g", <<>>, S_set("x", E_num(5)))
            \o S_define("g", <<>>, S_set("x", E_num(7)))
            \o E_call("g", <<>>))

\* define function f with a as f(a) end
P_recursion ==
    Program(S_define("f", <<E_var("a")>>, E_call("f", <<E_var("a")>>)))

\* define function f as f() end
P_recursion_no_parameters ==
    Program(S_define("f", <<>>, E_call("f", <<>>)))

\* define function f with a as f(1, 2) end
P_recursion_mismatch ==
    Program(S_define("f", <<E_var("a")>>, E_call("f", <<E_num(1), E_num(2)>>)))

\* define function f with a, b as
\*   if true then f(1, 2) end  let c be f(1)
\* end
P_recursion_in_block ==
    Program(S_define("f", <<E_var("a"), E_var("b")>>,
                     S_if(ETrue, E_call("f", <<E_num(1), E_num(2)>>))
                     \o S_let("c", E_call("f", <<E_num(1)>>))))

\* define function g with a as let t be 1 end
\* define function f with a, b as g(1)  f(1, g(2)) end
P_recursion_and_call ==
    Program(S_define("g", <<E_var("a")>>, S_let("t", E_num(1)))
            \o S_define("f", <<E_var("a"), E_var("b")>>,
                        E_call("g", <<E_num(1)>>)
                        \o E_call("f", <<E_num(1), E_call("g", <<E_num(2)>>)>>)))

\* define function g as let t be 1 end  let x be g()
P_call_value_after_declaration ==
    Program(S_define("g", <<>>, S_let("t", E_num(1)))
            \o S_let("x", E_call("g", <<>>)))

\* let x be 1  define function g as set x to 2 end  set x to g()
P_call_value_after_assignment ==
    Program(S_let("x", E_num(1))
            \o S_define("g", <<>>, S_set("x", E_num(2)))
            \o S_set("x", E_call("g", <<>>)))

\* define function g with a as end  let x be g(5)
P_call_value_empty_body ==
    Program(S_define("g", <<E_var("a")>>, <<>>)
            \o S_let("x", E_call("g", <<E_num(5)>>)))

\* define function g as let t be 1 end  let x be 1 + g()
P_call_value_operand ==
    Program(S_define("g", <<>>, S_let("t", E_num(1)))
            \o S_let("x", E_bin(E_num(1), TPlus, E_call("g", <<>>))))

\* let n be 0
\* define function f with a as
\*   for i from 1 to 2 do if true then set n to n + 1 end end
\* end
\* while n == 0 do f(5) end
\* if false then let z be 1 else f(n) end
P_nested_scopes ==
    Program(S_let("n", E_num(0))
            \o S_define("f", <<E_var("a")>>,
                        S_for("i", E_num(1), E_num(2),
                              S_if(ETrue, S_set("n", E_bin(E_var("n"), TPlus,
                                                           E_num(1))))))
            \o S_while(E_bin(E_var("n"), TEqEq, E_num(0)),
                       E_call("f", <<E_num(5)>>))
            \o S_if_else(EFalse, S_let("z", E_num(1)),
                         E_call("f", <<E_var("n")>>)))

\* if false then let a be 1 else if true then let b be 2 else let c be 3 end
\* let d be 4
P_else_if ==
    Program(<<TIf>> \o EFalse \o <<TThen>> \o S_let("a", E_num(1))
            \o <<TElse>>
            \o S_if_else(ETrue, S_let("b", E_num(2)), S_let("c", E_num(3)))
            \o S_let("d", E_num(4)))

FunctionPrograms ==
    {P_else_if, P_nested_scopes, P_forward_call, P_call_after_definition, P_function_in_block,
     P_function_in_function, P_function_defined_twice, P_recursion,
     P_recursion_no_parameters, P_recursion_mismatch, P_recursion_in_block,
     P_recursion_and_call, P_call_value_after_declaration,
     P_call_value_after_assignment, P_call_value_empty_body,
     P_call_value_operand}

\* let r be l op r, for literal operands
P_binary_literals(l, op, r) == Program(S_let("r", E_bin(l, op, r)))

\* let r be u e, for a literal operand
P_unary_literal(u, e) == Program(S_let("r", E_unary(u, e)))

ComparisonTokens == {TEqEq, TNotEq, TLt, TGt, TLe, TGe}

\* if 1 op 2 then let x be 1 end
P_if_comparison(op) ==
    Program(S_if(E_bin(E_num(1), op, E_num(2)), S_let("x", E_num(1))))

\* while 2 op 1 do let x be 1 end
P_while_comparison(op) ==
    Program(S_while(E_bin(E_num(2), op, E_num(1)), S_let("x", E_num(1))))

OperatorPrograms ==
    {P_binary_literals(l, op, r) :
        l \in {E_num(6), ETrue}, op \in BinaryOperatorTokens,
        r \in {E_num(3), EFalse}}
    \cup {P_unary_literal(u, e) : u \in UnaryOperatorTokens, e \in {E_num(6), ETrue}}
    \cup {P_if_comparison(op) : op \in ComparisonTokens}
    \cup {P_while_comparison(op) : op \in ComparisonTokens}

\* a statement with one of its tokens left out
DeleteAt(toks, k) == SubSeq(toks, 1, k - 1) \o SubSeq(toks, k + 1, Len(toks))

\* let x be 5 | set x to (1 + 2) | f(1, 2) | return (1)
\* | let a be 1  let x be 5  set a to 2 | if true then let x be 5 end
\* | while true do set x to 1 end
SimpleStatements ==
    {S_let("x", E_num(5)),
     S_set("x", E_group(E_bin(E_num(1), TPlus, E_num(2)))),
     E_call("f", <<E_num(1), E_num(2)>>),
     S_return(E_num(1)),
     S_let("a", E_num(1)) \o S_let("x", E_num(5)) \o S_set("a", E_num(2)),
     S_if(ETrue, S_let("x", E_num(5))),
     S_while(ETrue, S_set("x", E_num(1)))}

DeletionPrograms ==
    UNION {{Program(DeleteAt(b, k)) : k \in 1..Len(b)} : b \in SimpleStatements}

\* let be 5  set to 1  let y be 2 | let be 1  if then end  let 3 | let x be 1
\* | let x be <a literal one past the largest integer>
P_two_errors ==
    Program(<<TLet, TBe>> \o E_num(5) \o <<TSet, TTo>> \o E_num(1)
            \o S_let("y", E_num(2)))
P_three_errors ==
    Program(<<TLet, TBe>> \o E_num(1) \o <<TIf, TThen, TEnd>> \o <<TLet>> \o E_num(3))
P_no_error == Program(S_let("x", E_num(1)))
P_literal_out_of_range == Program(S_let("x", <<TNum(IntMax + 1)>>))

ErrorPrograms ==
    DeletionPrograms \cup {P_two_errors, P_three_errors, P_no_error,
                           P_literal_out_of_range}

Programs ==
    ForPrograms \cup AssignPrograms \cup CallPrograms \cup DeclarationPrograms
    \cup ScopePrograms \cup ArityPrograms \cup ReturnPrograms
    \cup PrecedencePrograms \cup ErrorPrograms \cup UnaryPrograms
    \cup DivisionPrograms \cup FunctionPrograms \cup OperatorPrograms
    \cup StepPrograms \cup ShadowPrograms

--------------------------------------------------------------------------
(* The pipeline of main: Parser::parse, Resolver::resolve,                *)
(* Interpreter::interpret                                                  *)

Init ==
    /\ lexer = Lexer_new(<<>>)
    /\ tokens \in Programs
    /\ overflow_checks \in BOOLEAN
    /\ stage = "parse"
    /\ parser = Parser_new
    /\ ast = <<>>
    /\ diagnostic = <<>>
    /\ resolver = Resolver_new
    /\ interpreter = Interpreter_new
    /\ kont = <<>>
    /\ panic = NoPanic
    /\ trace = <<>>

Next == ParseNext \/ ResolveNext \/ InterpretNext

Spec == Init /\ [][Next]_vars

--------------------------------------------------------------------------
(* The parser on its own (src/parser.rs): Parser::parse on every token    *)
(* stream of up to MaxStreamLen tokens of StreamTokens, on every stream of *)
(* up to MaxWideLen tokens of any kind, and on the programs of the         *)
(* pipeline, each followed by the end-of-file token, well-formed or not.   *)

\* the largest number of tokens of a stream before its end-of-file token
MaxStreamLen == 4

StreamTokens == {TIf, TThen, TElse, TEnd, TTrue, TLet, TId("x"), TBe, TReturn}

\* if true then end else
P_else_after_end == Program(<<TIf, TTrue, TThen, TEnd, TElse>>)

\* the largest number of tokens of a stream drawn from all token kinds
MaxWideLen == 2

\* a token of every kind but the end-of-file token
WideTokens ==
    {TNum(1), TId("x"), TLet, TBe, TSet, TTo, TIf, TThen, TElse, TEnd, TWhile,
     TDo, TFor, TFrom, TStep, TDefine, TFunction, TWith, TAs, TReturn, TTrue,
     TFalse, TAnd, TOr, TNot, TPlus, TMinus, TStar, TSlash, TPercent, TEqEq,
     TNotEq, TLt, TGt, TLe, TGe, TBang, TLParen, TRParen, TComma, TUnknown}

TokenStreams ==
    {Program(toks) : toks \in UNION {[1..n -> StreamTokens] : n \in 0..MaxStreamLen}}
    \cup {Program(toks) : toks \in UNION {[1..n -> WideTokens] : n \in 0..MaxWideLen}}
    \cup Programs
    \cup {P_literal_out_of_range, P_else_after_end}

ParserInit ==
    /\ lexer = Lexer_new(<<>>)
    /\ tokens \in TokenStreams
    /\ overflow_checks = TRUE
    /\ stage = "parse"
    /\ parser = Parser_new
    /\ ast = <<>>
    /\ diagnostic = <<>>
    /\ resolver = Resolver_new
    /\ interpreter = Interpreter_new
    /\ kont = <<>>
    /\ panic = NoPanic
    /\ trace = <<>>

ParserSpec == ParserInit /\ [][ParseNext]_vars

--------------------------------------------------------------------------
(* The lexer on its own (src/lexer.rs): the Iterator over a source text,  *)
(* collected into tokens until next_token returns None.                    *)

\* the largest length of a source text drawn from LexChars
MaxTextLen == 3

LexChars == {"=", "<", ">", "!", "+", " ", "a", "1", "$", "("}

\* + - * / == != <= >= < >
Text_operators ==
    <<"+", " ", "-", " ", "*", " ", "/", " ", "=", "=", " ", "!", "=", " ",
      "<", "=", " ", ">", "=", " ", "<", " ", ">">>

\* let x = 42 + y
Text_mixed ==
    <<"l", "e", "t", " ", "x", " ", "=", " ", "4", "2", " ", "+", " ", "y">>

Texts ==
    UNION {[1..n -> LexChars] : n \in 0..MaxTextLen}
    \cup {Text_operators, Text_mixed}

LexInit ==
    /\ lexer \in {Lexer_new(text) : text \in Texts}
    /\ tokens = <<>>
    /\ overflow_checks = TRUE
    /\ stage = "lex"
    /\ parser = Parser_new
    /\ ast = <<>>
    /\ diagnostic = <<>>
    /\ resolver = Resolver_new
    /\ interpreter = Interpreter_new
    /\ kont = <<>>
    /\ panic = NoPanic
    /\ trace = <<>>

LexKeep ==
    UNCHANGED <<overflow_checks, parser, ast, diagnostic, resolver,
                interpreter, kont, panic, trace>>

\* Iterator::next returns Some(token)
LexToken ==
    /\ stage = "lex"
    /\ Lexer_next_token(lexer).token # NoneV
    /\ tokens' = Append(tokens, Lexer_next_token(lexer).token)
    /\ lexer' = Lexer_next_token(lexer).lexer
    /\ UNCHANGED stage
    /\ LexKeep

\* Iterator::next returns None: the end-of-file token has been handed out
LexEnd ==
    /\ stage = "lex"
    /\ Lexer_next_token(lexer).token = NoneV
    /\ lexer' = Lexer_next_token(lexer).lexer
    /\ stage' = "lexed"
    /\ UNCHANGED tokens
    /\ LexKeep

LexNext == LexToken \/ LexEnd

LexerSpec == LexInit /\ [][LexNext]_vars

--------------------------------------------------------------------------
(* The symbols table on its own (src/symbols_table.rs): any sequence of   *)
(* enter_scope and define_variable calls, each on any scope of the table.  *)
(* The table under construction is resolver.symbols_table.                 *)

\* the largest number of scopes of the table
MaxTableScopes == 3

TableNames == {TId("a").value, TId("b").value}
TableTypes == {"Int", "Bool"}

ScopeIds(st) == 0..(Len(st.scopes) - 1)

TableInit ==
    /\ lexer = Lexer_new(<<>>)
    /\ tokens = <<TEof>>
    /\ overflow_checks = TRUE
    /\ stage = "symbols_table"
    /\ parser = Parser_new
    /\ ast = <<>>
    /\ diagnostic = <<>>
    /\ resolver = Resolver_new
    /\ interpreter = Interpreter_new
    /\ kont = <<>>
    /\ panic = NoPanic
    /\ trace = <<>>

TableKeep ==
    UNCHANGED <<lexer, tokens, overflow_checks, stage, parser, ast, diagnostic,
                interpreter, kont, panic, trace>>

\* symbols_table.enter_scope(s); the id it returns becomes the current scope
Table_enter_scope ==
    /\ stage = "symbols_table"
    /\ Len(resolver.symbols_table.scopes) < MaxTableScopes
    /\ \E s \in ScopeIds(resolver.symbols_table) :
          resolver' = Resolver_enter_scope([resolver EXCEPT !.current_scope_id = s])
    /\ TableKeep

\* symbols_table.define_variable(VariableSymbol { identifier, sym_type }, s)
Table_define_variable ==
    /\ stage = "symbols_table"
    /\ \E s \in ScopeIds(resolver.symbols_table), identifier \in TableNames,
          sym_type \in TableTypes :
          resolver' = [resolver EXCEPT
                          !.symbols_table =
                              define_variable(@, VariableSymbol(identifier, sym_type), s),
                          !.current_scope_id = s]
    /\ TableKeep

TableNext == Table_enter_scope \/ Table_define_variable

SymbolsTableSpec == TableInit /\ [][TableNext]_vars

--------------------------------------------------------------------------
(* Properties *)

\* the values the loop variable takes in `for i from s to e step k`: s, s+k,
\* s+2k, ... while not above e; k = 0 stands for an omitted step, which is 1
ForValues(s, e, k) ==
    LET step == IF k = 0 THEN 1 ELSE k
        n == IF s > e THEN 0 ELSE ((e - s) \div step) + 1 IN
    [j \in 1..n |-> [variable |-> TId("i").value,
                     value |-> RuntimeValue_Number(s + (j - 1) * step)]]

\* C1: a for loop from s to e with step k >= 1 (1 when omitted), whose body
\* does not assign the loop variable, runs its body once for each of s, s+k,
\* s+2k, ... not above e, in increasing order and with the loop variable bound
\* to that value, and not at all when s > e: the body entries so far are a
\* prefix of that list, the run does not panic, and a finished run has made
\* all of them.
C1_ForLoopIterations ==
    \A s \in ForStarts, e \in ForEnds, k \in ForSteps :
        tokens = ForProgram(s, e, k) =>
            /\ Len(trace) <= Len(ForValues(s, e, k))
            /\ trace = SubSeq(ForValues(s, e, k), 1, Len(trace))
            /\ stage # "panicked"
            /\ stage = "finished" => Len(trace) = Len(ForValues(s, e, k))

\* C1 away from the largest integer: the same statement for the loops whose
\* end is below IntMax
C1_BelowIntMax ==
    \A s \in ForStarts, e \in ForEnds \ {IntMax}, k \in ForSteps :
        tokens = ForProgram(s, e, k) =>
            /\ Len(trace) <= Len(ForValues(s, e, k))
            /\ trace = SubSeq(ForValues(s, e, k), 1, Len(trace))
            /\ stage # "panicked"
            /\ stage = "finished" => Len(trace) = Len(ForValues(s, e, k))

\* `for i from 1 to 5 step 2` has finished after i = 1, 3, 5
C1_Witness ==
    /\ tokens = ForProgram(1, 5, 2)
    /\ stage = "finished"
    /\ trace = <<[variable |-> TId("i").value, value |-> RuntimeValue_Number(1)],
                 [variable |-> TId("i").value, value |-> RuntimeValue_Number(3)],
                 [variable |-> TId("i").value, value |-> RuntimeValue_Number(5)]>>

\* the innermost scope of a scope stack that binds name, 0 when none does
InnermostBinding(scopes, name) ==
    IF \A j \in 1..Len(scopes) : name \notin DOMAIN scopes[j] THEN 0
    ELSE CHOOSE j \in 1..Len(scopes) :
            /\ name \in DOMAIN scopes[j]
            /\ \A m \in (j + 1)..Len(scopes) : name \notin DOMAIN scopes[m]

\* the bindings of one scope, from pairs <<name, number>>
Bindings(pairs) ==
    [name \in {TId(pr[1]).value : pr \in pairs} |->
        RuntimeValue_Number((CHOOSE pr \in pairs : TId(pr[1]).value = name)[2])]

\* the step of `set x to e` that follows the evaluation of e
AssignmentStep ==
    /\ stage = "interpret"
    /\ kont # <<>>
    /\ Top.op = "visit_variable_assignement"
    /\ stage' = "interpret"

\* C2: `set x to e` evaluates e, then overwrites x in the innermost runtime
\* scope that already binds x, changes no other scope or variable and creates
\* no binding; `let x be 1  let y be 2  set x to x + y` ends with the global
\* bindings x = 3 and y = 2, and an assignment made inside a block reaches
\* the outer binding unless the block shadows it.
C2_AssignmentOverwritesInnermost ==
    [][/\ AssignmentStep =>
            LET old == interpreter.scopes
                new == interpreter'.scopes
                target == InnermostBinding(old, Top.name) IN
            /\ target # 0
            /\ Len(new) = Len(old)
            /\ \A j \in 1..Len(old) :
                  /\ DOMAIN new[j] = DOMAIN old[j]
                  /\ \A name \in DOMAIN old[j] :
                        new[j][name] = IF j = target /\ name = Top.name
                                       THEN interpreter.accumulator
                                       ELSE old[j][name]
       /\ (stage' = "finished" /\ tokens = P_sample) =>
            interpreter'.scopes = <<Bindings({<<"x", 3>>, <<"y", 2>>})>>
       /\ (stage' = "finished" /\ tokens = P_nested_set) =>
            interpreter'.scopes = <<Bindings({<<"x", 3>>})>>
       /\ (stage' = "finished" /\ tokens = P_shadow_set) =>
            interpreter'.scopes = <<Bindings({<<"x", 1>>})>>
      ]_vars

\* inside the if-block of P_nested_set, `set x to x + y` has just written 3 to
\* the global x and left the block's own scope alone
C2_Witness ==
    /\ tokens = P_nested_set
    /\ stage = "interpret"
    /\ interpreter.scopes = <<Bindings({<<"x", 3>>}), Bindings({<<"y", 2>>})>>

\* the run of program toks ends with the global variable c bound to number n
EndsWithGlobal(toks, c, n) ==
    tokens = toks =>
        /\ stage \notin {"compile_failed", "panicked"}
        /\ stage = "finished" =>
              /\ TId(c).value \in DOMAIN interpreter.scopes[1]
              /\ interpreter.scopes[1][TId(c).value] = RuntimeValue_Number(n)

\* C3: a function call used as an expression, whose body executes
\* `return (e)`, evaluates to the value of e: with g returning (a),
\* `let x be g(5)` binds x to 5, and with f returning (a + b),
\* `let a be f(5, 7)` binds a to 12.
C3_CallEvaluatesToReturnedValue ==
    /\ EndsWithGlobal(P_id_call, "x", 5)
    /\ EndsWithGlobal(P_add_call, "a", 12)

\* C3 for the identity function alone
C3_IdentityCall == EndsWithGlobal(P_id_call, "x", 5)

\* C3 for the two-parameter sum alone
C3_SumCall == EndsWithGlobal(P_add_call, "a", 12)

\* the diagnostics of one kind, in the order of their report
OfKind(diags, kind) == SelectSeq(diags, LAMBDA d : d.kind = kind)

\* the last step of the resolver's traversal
ResolutionEnds == stage = "resolve" /\ stage' # "resolve"

\* The names declared again in their own block, read off the program text, in
\* textual order: every block opens a scope of its own, and bound holds the
\* names declared so far in the block that stmts continues.
RECURSIVE RedeclaredNames(_, _)
RedeclaredNames(stmts, bound) ==
    IF stmts = <<>> THEN <<>>
    ELSE LET s == Head(stmts)
             inner(b) == IF b = NoneV THEN <<>> ELSE RedeclaredNames(<<b>>, {}) IN
         CASE s.kind = "VariableDeclaration" ->
                (IF s.name \in bound THEN <<s.name>> ELSE <<>>)
                \o RedeclaredNames(Tail(stmts), bound \cup {s.name})
           [] s.kind = "BlockStatement" ->
                RedeclaredNames(s.statements, {})
                \o RedeclaredNames(Tail(stmts), bound)
           [] s.kind = "IfStatement" ->
                inner(s.then_branch) \o inner(s.else_branch)
                \o RedeclaredNames(Tail(stmts), bound)
           [] s.kind \in {"WhileStatement", "ForStatement", "FunctionDefinition"} ->
                inner(s.body) \o RedeclaredNames(Tail(stmts), bound)
           [] OTHER -> RedeclaredNames(Tail(stmts), bound)

\* C4: the resolver reports variable-redefinition for `let x` exactly when x
\* is already bound in the current scope itself: the visit of a declaration
\* appends the diagnostic if the current scope binds the name and reports
\* nothing otherwise, and a whole traversal reports exactly the names declared
\* twice in one block, so that shadowing in a nested block reports nothing.
C4_RedefinitionOnlyInCurrentScope ==
    [][/\ Visiting("resolve", "stmt", "VariableDeclaration") =>
            LET current == resolver.symbols_table
                               .scopes[resolver.current_scope_id + 1] IN
            resolver'.diagnostics =
                IF Top.node.name \in DOMAIN current.variables
                THEN Append(resolver.diagnostics,
                            variable_redefinition(Top.node.name))
                ELSE resolver.diagnostics
       /\ ResolutionEnds =>
            OfKind(resolver.diagnostics, "VariableRedefinition")
              = [j \in 1..Len(RedeclaredNames(ast, {})) |->
                    variable_redefinition(RedeclaredNames(ast, {})[j])]
      ]_vars

\* `if true then let x be 1  let x be 2 else let x be 3 end  let x be 4`
\* fails with one redefinition, that of the second declaration
C4_Witness ==
    /\ tokens = P_redefinition_inner
    /\ stage = "compile_failed"
    /\ resolver.diagnostics = <<variable_redefinition(TId("x").value)>>

\* with x bound globally, the x declared inside the if-block is accepted
C4_WitnessShadowing ==
    /\ tokens = P_shadow
    /\ stage = "finished"
    /\ resolver.diagnostics = <<>>

\* The names used where no enclosing block binds them, read off the program
\* text in the order of the traversal: visible holds the names declared so far
\* in the block that stmts continues and in the blocks around it, and
\* in_function says whether that block lies in a function body (the resolver
\* looks into the expression of a return statement only there).
RECURSIVE UndefinedInExpression(_, _)
RECURSIVE UndefinedInExpressions(_, _)
UndefinedInExpression(e, visible) ==
    CASE e.kind = "Variable" -> IF e.name \in visible THEN <<>> ELSE <<e.name>>
      [] e.kind = "BinaryOperation" ->
           UndefinedInExpression(e.left, visible)
           \o UndefinedInExpression(e.right, visible)
      [] e.kind = "UnaryOperation" -> UndefinedInExpression(e.operand, visible)
      [] e.kind = "Grouped" -> UndefinedInExpression(e.expression, visible)
      [] e.kind = "FunctionCall" -> UndefinedInExpressions(e.arguments, visible)
      [] OTHER -> <<>>

UndefinedInExpressions(exprs, visible) ==
    IF exprs = <<>> THEN <<>>
    ELSE UndefinedInExpression(Head(exprs), visible)
         \o UndefinedInExpressions(Tail(exprs), visible)

RECURSIVE UndefinedNames(_, _, _)
UndefinedNames(stmts, visible, in_function) ==
    IF stmts = <<>> THEN <<>>
    ELSE LET s == Head(stmts)
             expr(e) == IF e = NoneV THEN <<>> ELSE UndefinedInExpression(e, visible)
             inner(b, names, in_f) ==
                 IF b = NoneV THEN <<>>
                 ELSE UndefinedNames(<<b>>, visible \cup names, in_f)
             rest == UndefinedNames(Tail(stmts), visible, in_function) IN
         CASE s.kind = "VariableDeclaration" ->
                expr(s.value)
                \o UndefinedNames(Tail(stmts), visible \cup {s.name}, in_function)
           [] s.kind = "VariableAssignment" ->
                expr(s.value)
                \o (IF s.name \in visible THEN <<>> ELSE <<s.name>>) \o rest
           [] s.kind = "BlockStatement" ->
                UndefinedNames(s.statements, visible, in_function) \o rest
           [] s.kind = "IfStatement" ->
                expr(s.condition) \o inner(s.then_branch, {}, in_function)
                \o inner(s.else_branch, {}, in_function) \o rest
           [] s.kind = "WhileStatement" ->
                expr(s.condition) \o inner(s.body, {}, in_function) \o rest
           [] s.kind = "ForStatement" ->
                expr(s.start) \o expr(s.end) \o expr(s.step)
                \o inner(s.body, {s.variable}, in_function) \o rest
           [] s.kind = "FunctionDefinition" ->
                inner(s.body, SeqToSet(s.arguments), TRUE) \o rest
           [] s.kind = "FunctionCall" ->
                UndefinedInExpressions(s.arguments, visible) \o rest
           [] s.kind = "ReturnStatement" ->
                (IF in_function THEN expr(s.expression) ELSE <<>>) \o rest
           [] OTHER -> rest

\* the scope with id scope_id and its ancestors in symbols table st
RECURSIVE ScopeChain(_, _)
ScopeChain(st, scope_id) ==
    IF scope_id = NoParent THEN {}
    ELSE {scope_id} \cup ScopeChain(st, st.scopes[scope_id + 1].parent)

\* no scope of the chain of the resolver's current scope binds name
Unbound(name) ==
    \A id \in ScopeChain(resolver.symbols_table, resolver.current_scope_id) :
        name \notin DOMAIN resolver.symbols_table.scopes[id + 1].variables

\* the step appends undefined-variable for name if unbound, and no
\* undefined-variable otherwise
ReportsUndefinedIff(name, unbound) ==
    OfKind(resolver'.diagnostics, "UndefinedVariable")
      = IF unbound
        THEN Append(OfKind(resolver.diagnostics, "UndefinedVariable"),
                    undefined_variable(name))
        ELSE OfKind(resolver.diagnostics, "UndefinedVariable")

\* C5: the resolver reports undefined-variable for an assignment to, or a
\* reference of, a name exactly when neither the current scope nor any of its
\* ancestors binds the name at that point of the traversal, and a whole
\* traversal reports exactly the uses that no enclosing block of the text
\* binds; a name declared in an if-block is unbound again after the block.
C5_UndefinedExactlyOutsideScopeChain ==
    [][/\ Resuming("resolve", "visit_variable_assignement") =>
            ReportsUndefinedIff(Top.name, Unbound(Top.name))
       /\ Visiting("resolve", "expr", "Variable") =>
            ReportsUndefinedIff(Top.node.name, Unbound(Top.node.name))
       /\ ResolutionEnds =>
            OfKind(resolver.diagnostics, "UndefinedVariable")
              = [j \in 1..Len(UndefinedNames(ast, {}, FALSE)) |->
                    undefined_variable(UndefinedNames(ast, {}, FALSE)[j])]
      ]_vars

\* `if true then let z be 1 end  let y be z` fails with z undefined
C5_Witness ==
    /\ tokens = P_reference_after_if
    /\ stage = "compile_failed"
    /\ resolver.diagnostics = <<undefined_variable(TId("z").value)>>

\* `if true then let z be 1 end  set z to 2` fails with z undefined
C5_WitnessAssignment ==
    /\ tokens = P_assignment_after_if
    /\ stage = "compile_failed"
    /\ resolver.diagnostics = <<undefined_variable(TId("z").value)>>

\* the resolver is about to visit a call of a function that is registered
RegisteredCallStep ==
    /\ stage = "resolve"
    /\ kont # <<>>
    /\ Top.op \in {"stmt", "expr"}
    /\ Top.node.kind = "FunctionCall"
    /\ Top.node.function_name \in DOMAIN resolver.symbols_table.functions

\* C6: for a call of a registered function the resolver reports
\* function-argument-count-mismatch, with the declared parameter count and the
\* supplied argument count, exactly when the two differ (f declares two
\* parameters, so its calls with 0, 1 and 3 arguments are reported and the
\* call with 2 is not), and a program with such a report is never interpreted.
C6_ArgumentCountMismatch ==
    [][/\ RegisteredCallStep =>
            LET declared ==
                    Len(resolver.symbols_table.functions[Top.node.function_name]
                            .parameters)
                supplied == Len(Top.node.arguments) IN
            resolver'.diagnostics =
                IF declared # supplied
                THEN Append(resolver.diagnostics,
                            [kind |-> "FunctionArgumentsMismatch",
                             function_name |-> Top.node.function_name,
                             expected |-> declared, found |-> supplied])
                ELSE resolver.diagnostics
       /\ \A n \in ArgumentCounts, e \in BOOLEAN :
            (ResolutionEnds /\ tokens = P_call_with(n, e)) =>
                OfKind(resolver.diagnostics, "FunctionArgumentsMismatch")
                  = IF n = 2 THEN <<>>
                    ELSE <<[kind |-> "FunctionArgumentsMismatch",
                            function_name |-> TId("f").value,
                            expected |-> 2, found |-> n]>>
       /\ OfKind(resolver'.diagnostics, "FunctionArgumentsMismatch") # <<>> =>
            /\ stage' \in {"resolve", "compile_failed"}
            /\ interpreter' = Interpreter_new
      ]_vars

\* `let x be 1 + f(1, 1, 1)` with f of two parameters fails to compile with
\* the counts 2 and 3
C6_Witness ==
    /\ tokens = P_call_with(3, TRUE)
    /\ stage = "compile_failed"
    /\ resolver.diagnostics = <<[kind |-> "FunctionArgumentsMismatch",
                                 function_name |-> TId("f").value,
                                 expected |-> 2, found |-> 3]>>

\* The number of return statements of stmts that lie in no function body,
\* read off the program text; in_function says whether stmts itself lies in one.
RECURSIVE ReturnsOutsideFunction(_, _)
ReturnsOutsideFunction(stmts, in_function) ==
    IF stmts = <<>> THEN 0
    ELSE LET s == Head(stmts)
             inner(b, in_f) ==
                 IF b = NoneV THEN 0 ELSE ReturnsOutsideFunction(<<b>>, in_f)
             rest == ReturnsOutsideFunction(Tail(stmts), in_function) IN
         CASE s.kind = "ReturnStatement" -> (IF in_function THEN 0 ELSE 1) + rest
           [] s.kind = "BlockStatement" ->
                ReturnsOutsideFunction(s.statements, in_function) + rest
           [] s.kind = "IfStatement" ->
                inner(s.then_branch, in_function) + inner(s.else_branch, in_function)
                + rest
           [] s.kind \in {"WhileStatement", "ForStatement"} ->
                inner(s.body, in_function) + rest
           [] s.kind = "FunctionDefinition" -> inner(s.body, TRUE) + rest
           [] OTHER -> rest

\* the return statements of stmts, in function bodies or not
RECURSIVE ReturnStatements(_)
ReturnStatements(stmts) ==
    IF stmts = <<>> THEN 0
    ELSE LET s == Head(stmts)
             inner(b) == IF b = NoneV THEN 0 ELSE ReturnStatements(<<b>>)
             rest == ReturnStatements(Tail(stmts)) IN
         CASE s.kind = "ReturnStatement" -> 1 + rest
           [] s.kind = "BlockStatement" -> ReturnStatements(s.statements) + rest
           [] s.kind = "IfStatement" ->
                inner(s.then_branch) + inner(s.else_branch) + rest
           [] s.kind \in {"WhileStatement", "ForStatement", "FunctionDefinition"} ->
                inner(s.body) + rest
           [] OTHER -> rest

\* C7: the resolver reports return-outside-function for a return statement
\* exactly when the statement is not lexically inside a function body: a
\* traversal reports once for each return statement outside every function
\* body and never for one inside, at whatever depth of if/else/while/for
\* blocks, and a return in a top-level block after a function definition is
\* reported.
C7_ReturnOutsideFunction ==
    [][ResolutionEnds =>
          Len(OfKind(resolver.diagnostics, "ReturnOutsideFunction"))
            = ReturnsOutsideFunction(ast, FALSE)
      ]_vars

\* `define function f as define function g as return (1) end return (2) end
\* return (3)`: the two returns in function bodies are accepted, the third is
\* reported
C7_Witness ==
    /\ tokens = P_return_nested_function
    /\ stage = "compile_failed"
    /\ ReturnStatements(ast) = 3
    /\ resolver.diagnostics = <<return_outside_function>>

\* the returns nested in if/else/while/for blocks of a function body are
\* accepted
C7_WitnessNested ==
    /\ tokens = P_return_nested
    /\ stage = "finished"
    /\ ReturnStatements(ast) = 3
    /\ resolver.diagnostics = <<>>

\* the return in the if-block that follows a function definition is reported
C7_WitnessAfterFunction ==
    /\ tokens = P_return_after_function
    /\ stage = "compile_failed"
    /\ ReturnStatements(ast) = 2
    /\ resolver.diagnostics = <<return_outside_function>>

\* Statements with one token left out so that exactly one statement is
\* malformed: <<statement, positions>>, where positions[k] is the position, in
\* the program without token k of the statement, of the token that does not
\* fit (the end-of-file token when the statement breaks off), and 0 where
\* leaving out token k is not such an error: without its `if` or `while` a
\* block leaves its `end` behind, which is an error of its own.
MalformedStatements ==
    {<<S_let("x", E_num(5)), <<2, 2, 3, 4>>>>,
     <<S_set("x", E_group(E_bin(E_num(1), TPlus, E_num(2)))),
       <<2, 2, 3, 7, 5, 6, 7, 8>>>>,
     <<E_call("f", <<E_num(1), E_num(2)>>), <<1, 2, 3, 4, 5, 6>>>>,
     <<S_return(E_num(1)), <<1, 2, 3, 4>>>>,
     <<S_let("a", E_num(1)) \o S_let("x", E_num(5)) \o S_set("a", E_num(2)),
       <<2, 2, 3, 4, 6, 6, 7, 8, 10, 10, 11, 12>>>>,
     <<S_if(ETrue, S_let("x", E_num(5))), <<0, 2, 3, 5, 5, 6, 7, 8>>>>,
     <<S_while(ETrue, S_set("x", E_num(1))), <<0, 2, 3, 5, 5, 6, 7, 8>>>>}

\* the token stream is statement st without its token k, and the parser has
\* returned or panicked
ParsedWithout(st, k) ==
    /\ tokens = Program(DeleteAt(st, k))
    /\ stage # "parse"

\* C8: a single statement-level syntax error (such as `let be 5`) produces
\* exactly one unexpected-token diagnostic, which names the token actually
\* found, and the parser still runs to the end of the stream without a panic
\* and returns Err.
C8_SingleSyntaxError ==
    \A m \in MalformedStatements : \A k \in 1..Len(m[1]) :
        (m[2][k] # 0 /\ ParsedWithout(m[1], k)) =>
            /\ stage = "compile_failed"
            /\ panic = NoPanic
            /\ Len(diagnostic) = 1
            /\ diagnostic[1].kind = "UnexpectedToken"
            /\ diagnostic[1].found = tokens[m[2][k]].value
            /\ tokens[m[2][k]].kind \notin SeqToSet(diagnostic[1].expected)
            /\ peek(parser).kind = "EndOfFile"

\* `let be 5` has been parsed: one diagnostic, naming `be`
C8_Witness ==
    /\ tokens = Program(<<TLet, TBe, TNum(5)>>)
    /\ stage = "compile_failed"
    /\ panic = NoPanic
    /\ Len(diagnostic) = 1
    /\ diagnostic[1].kind = "UnexpectedToken"
    /\ diagnostic[1].found = TBe.value

\* `true then let x be 5 end`, an if-block without its `if`, has been parsed:
\* the unexpected `true` and the `end` without a block are both reported
C8_BlockWithoutKeyword ==
    /\ tokens = Program(DeleteAt(S_if(ETrue, S_let("x", E_num(5))), 1))
    /\ stage = "compile_failed"
    /\ Len(diagnostic) = 2
    /\ diagnostic[1].kind = "UnexpectedToken"
    /\ diagnostic[2] = unexpected_end_token

\* s is t or a proper prefix of it
IsPrefix(s, t) == Len(s) <= Len(t) /\ s = SubSeq(t, 1, Len(s))

\* the tokens named by the diagnostics, in the order of the reports
FoundTokens(diags) == [j \in 1..Len(diags) |-> diags[j].found]

\* parse returns: Err(diagnostic) ends the compilation, Ok(ast) hands the AST
\* to the resolver
ParseReturns == stage = "parse" /\ stage' \in {"compile_failed", "resolve"}

\* C9: the parser records one diagnostic for each statement that fails to
\* parse, in the order of the failures, and goes on parsing after each until
\* the end of the stream; parse returns Err exactly when a diagnostic was
\* recorded and Ok(AST) otherwise. A step of the parser reports at most one
\* diagnostic, behind those already recorded, and stays in the parser;
\* `let be 5  set to 1  let y be 2` reports `be` then `to`, and
\* `let be 1  if then end  let 3` reports `be`, `then` and `3`.
C9_DiagnosticsAccumulate ==
    [][/\ IsPrefix(diagnostic, diagnostic')
       /\ Len(diagnostic') <= Len(diagnostic) + 1
       /\ diagnostic' # diagnostic => (stage = "parse" /\ stage' = "parse")
       /\ (stage = "parse" /\ stage' = "parse" /\ ast' = ast) =>
            Len(diagnostic') = Len(diagnostic) + 1
       /\ ParseReturns =>
            /\ peek(parser').kind = "EndOfFile"
            /\ stage' = "compile_failed" <=> diagnostic # <<>>
            /\ stage' = "resolve" => kont' = StmtFrames(ast)
            /\ tokens = P_two_errors =>
                 FoundTokens(diagnostic) = <<TBe.value, TTo.value>>
            /\ tokens = P_three_errors =>
                 FoundTokens(diagnostic) = <<TBe.value, TThen.value, TNum(3).value>>
            /\ tokens = P_no_error => diagnostic = <<>>
      ]_vars

\* `let be 1  if then end  let 3` has been parsed to its end with three
\* diagnostics
C9_Witness ==
    /\ tokens = P_three_errors
    /\ stage = "compile_failed"
    /\ Len(diagnostic) = 3
    /\ peek(parser).kind = "EndOfFile"

\* a program without errors has been handed to the resolver
C9_WitnessOk ==
    /\ tokens = P_no_error
    /\ stage = "resolve"
    /\ diagnostic = <<>>
    /\ ast # <<>>

\* the precedence band of a binary operator token: or, and, the comparisons,
\* the additive and the multiplicative operators, from the loosest to the
\* tightest
Band(token) ==
    CASE token = TOr -> 1
      [] token = TAnd -> 2
      [] token \in {TEqEq, TNotEq, TLt, TGt, TLe, TGe} -> 3
      [] token \in {TPlus, TMinus} -> 4
      [] token \in {TStar, TSlash, TPercent} -> 5

\* the node of `l token r`
Operation(l, token, r) == BinaryOperation(l, BinaryOperator_try_from(token.kind), r)

\* the parser has returned the AST of `let x be e`
ParsedAs(e) ==
    /\ diagnostic = <<>>
    /\ panic = NoPanic
    /\ ast = <<VariableDeclaration(TId("x").value, e)>>

VarA == Variable(TId("a").value)
VarB == Variable(TId("b").value)
VarC == Variable(TId("c").value)

\* C10: between binary operators of different precedence bands (or < and <
\* comparisons < additive < multiplicative) the operator of the higher band
\* binds tighter whatever the textual order: `a op1 b op2 c` parses as
\* op1(a, op2(b, c)) when op2 is of the higher band and as op2(op1(a, b), c)
\* when op1 is, so `a + b * c` is Add(a, Mul(b, c)); a parenthesised
\* sub-expression is one Grouped operand, so `(a op1 b) op2 c` parses as
\* op2(Grouped(op1(a, b)), c) for every pair of operators.
C10_PrecedenceAndGrouping ==
    \A op1 \in BinaryOperatorTokens, op2 \in BinaryOperatorTokens :
        /\ (tokens = P_chain(op1, op2) /\ stage # "parse"
            /\ Band(op1) # Band(op2)) =>
              ParsedAs(IF Band(op2) > Band(op1)
                       THEN Operation(VarA, op1, Operation(VarB, op2, VarC))
                       ELSE Operation(Operation(VarA, op1, VarB), op2, VarC))
        /\ (tokens = P_grouped(op1, op2) /\ stage # "parse") =>
              ParsedAs(Operation(Grouped(Operation(VarA, op1, VarB)), op2, VarC))

\* `let x be a + b * c` has been parsed with the product as the right operand
\* of the sum
C10_Witness ==
    /\ tokens = P_chain(TPlus, TStar)
    /\ stage # "parse"
    /\ ast = <<VariableDeclaration(TId("x").value,
                  BinaryOperation(VarA, "Add",
                      BinaryOperation(VarB, "Multiply", VarC)))>>

\* `let x be (a + b) * c` has been parsed with the grouped sum as the left
\* operand of the product
C10_WitnessGrouped ==
    /\ tokens = P_grouped(TPlus, TStar)
    /\ stage # "parse"
    /\ ast = <<VariableDeclaration(TId("x").value,
                  BinaryOperation(Grouped(BinaryOperation(VarA, "Add", VarB)),
                                  "Multiply", VarC))>>

\* the node of `token e`
Unary(token, e) == UnaryOperation(UnaryOperator_try_from(token.kind), e)

\* C11: a unary prefix operator (-, not, !) binds tighter than every binary
\* operator and unary operators nest: `u1 u2 5` parses as u1(u2(5)), so
\* `- -5` is Negate(Negate(5)); `u a op b` parses as op(u(a), b) and
\* `a op u b` as op(a, u(b)) for every unary operator u and every binary
\* operator op.
C11_UnaryBindsTighter ==
    /\ \A u1 \in UnaryOperatorTokens, u2 \in UnaryOperatorTokens :
          (tokens = P_nested_unary(u1, u2) /\ stage # "parse") =>
              ParsedAs(Unary(u1, Unary(u2, Number(5))))
    /\ \A u \in UnaryOperatorTokens, op \in BinaryOperatorTokens :
          /\ (tokens = P_unary_left(u, op) /\ stage # "parse") =>
                ParsedAs(Operation(Unary(u, VarA), op, VarB))
          /\ (tokens = P_unary_right(u, op) /\ stage # "parse") =>
                ParsedAs(Operation(VarA, op, Unary(u, VarB)))

\* `let x be - -5` has been parsed as the negation of the negation of 5
C11_Witness ==
    /\ tokens = P_nested_unary(TMinus, TMinus)
    /\ stage # "parse"
    /\ ast = <<VariableDeclaration(TId("x").value,
                  UnaryOperation("Negate", UnaryOperation("Negate", Number(5))))>>

\* `let x be -a * b` has been parsed as the product of the negation of a and b
C11_WitnessBinary ==
    /\ tokens = P_unary_left(TMinus, TStar)
    /\ stage # "parse"
    /\ ast = <<VariableDeclaration(TId("x").value,
                  BinaryOperation(UnaryOperation("Negate", VarA), "Multiply",
                                  VarB))>>

\* the resolver has not run: Resolver::new() was never asked to resolve
ResolverIdle == resolver = Resolver_new

\* the interpreter has not run: no function collected, no binding made, no
\* loop body entered
InterpreterIdle == interpreter = Interpreter_new /\ trace = <<>>

\* C12: the pipeline is strictly ordered.  The resolver takes steps only
\* between a parse that returned without diagnostics and its own end; the
\* interpreter takes steps only after a parse and a resolution without
\* diagnostics; once a compile-time diagnostic exists the interpreter never
\* runs, and a failed compilation is final.
C12_PipelineOrder ==
    [][
        /\ (stage' # stage) =>
            \/ stage = "parse" /\ stage' \in {"resolve", "compile_failed", "panicked"}
            \/ stage = "resolve"
                  /\ stage' \in {"interpret", "compile_failed", "panicked"}
            \/ stage = "interpret" /\ stage' \in {"finished", "panicked"}
        /\ (stage' = "resolve") => diagnostic' = <<>>
        /\ (stage' = "interpret") =>
              diagnostic' = <<>> /\ resolver'.diagnostics = <<>>
        /\ (stage = "parse") => ResolverIdle /\ InterpreterIdle
        /\ (resolver' # resolver) => stage = "resolve" /\ stage' = "resolve"
        /\ (stage = "resolve") => InterpreterIdle
        /\ (interpreter' # interpreter \/ trace' # trace) =>
              /\ stage' = "interpret"
              /\ diagnostic = <<>> /\ resolver.diagnostics = <<>>
        /\ (diagnostic # <<>> \/ resolver.diagnostics # <<>>) =>
              /\ InterpreterIdle /\ interpreter' = interpreter /\ trace' = trace
              /\ stage' \notin {"interpret", "finished"}
        /\ (diagnostic # <<>>) => ResolverIdle /\ resolver' = resolver
        /\ (stage = "compile_failed") => UNCHANGED vars
      ]_vars

\* `let be 5  set to 1  let y be 2`: the parse has failed with the
\* declaration of y in the AST, and neither the resolver nor the interpreter
\* has run
C12_Witness ==
    /\ tokens = P_two_errors
    /\ stage = "compile_failed"
    /\ Len(diagnostic) = 2
    /\ Len(ast) = 1
    /\ ResolverIdle
    /\ InterpreterIdle

\* `let x be 1  let x be 2`: the resolution has failed after a parse without
\* diagnostics, and the interpreter has not run
C12_WitnessResolver ==
    /\ tokens = P_redefinition
    /\ stage = "compile_failed"
    /\ diagnostic = <<>>
    /\ resolver.diagnostics # <<>>
    /\ InterpreterIdle

\* the sample program has gone through the three stages in order
C12_WitnessRun ==
    /\ tokens = P_sample
    /\ stage = "finished"
    /\ diagnostic = <<>> /\ resolver.diagnostics = <<>>
    /\ ~ResolverIdle /\ ~InterpreterIdle

\* the interpreter is about to apply the division operator to the values of
\* both operands, the right one being 0
DivisionByZeroStep ==
    /\ stage = "interpret"
    /\ kont # <<>>
    /\ Top.op = "visit_binary_operation"
    /\ Top.pc = 2
    /\ Top.node.operator = "Divide"
    /\ Top.left \in {RuntimeValue_Number(n) : n \in IntMin..IntMax}
    /\ interpreter.accumulator = RuntimeValue_Number(0)

\* C13: a division whose right operand evaluates to 0 raises the
\* division-by-zero runtime error instead of producing a value, and the
\* interpretation aborts there: the enclosing declaration or assignment binds
\* nothing and no later statement executes.  `let r be 1 / 0  let z be 5`
\* ends with no binding at all, `let a be 1  set a to a / 0  set a to 7` with
\* a = 1.
C13_DivisionByZeroAborts ==
    [][
        /\ DivisionByZeroStep =>
              /\ stage' = "panicked"
              /\ panic' = "Error: Division by zero"
              /\ interpreter'.scopes = interpreter.scopes
              /\ trace' = trace
        /\ (stage = "panicked") => UNCHANGED vars
        /\ (panic' = "Error: Division by zero") =>
              /\ stage' = "panicked"
              /\ stage = "interpret" => DivisionByZeroStep
        /\ (tokens = P_division_by_zero /\ stage' \in {"panicked", "finished"}) =>
              /\ panic' = "Error: Division by zero"
              /\ interpreter'.scopes = <<EmptyMap>>
        /\ (tokens = P_division_by_zero_assignment
               /\ stage' \in {"panicked", "finished"}) =>
              /\ panic' = "Error: Division by zero"
              /\ interpreter'.scopes = <<Bindings({<<"a", 1>>})>>
        /\ (tokens = P_division_by_zero_variable
               /\ stage' \in {"panicked", "finished"}) =>
              /\ panic' = "Error: Division by zero"
              /\ interpreter'.scopes = <<Bindings({<<"d", 0>>})>>
        /\ (tokens = P_division_by_zero_computed
               /\ stage' \in {"panicked", "finished"}) =>
              /\ panic' = "Error: Division by zero"
              /\ interpreter'.scopes = <<EmptyMap>>
        /\ (tokens = P_division_by_zero_in_block
               /\ stage' \in {"panicked", "finished"}) =>
              /\ panic' = "Error: Division by zero"
              /\ interpreter'.scopes =
                    <<Bindings({<<"r", 1>>}), Bindings({<<"s", 2>>})>>
      ]_vars

\* `let r be 1 / 0  let z be 5` has been aborted by the division: neither r
\* nor z is bound
C13_Witness ==
    /\ tokens = P_division_by_zero
    /\ stage = "panicked"
    /\ panic = "Error: Division by zero"
    /\ interpreter.scopes = <<EmptyMap>>

\* divisions by a divisor other than 0 produce the truncated quotient
C13_WitnessQuotient ==
    /\ tokens = P_division
    /\ stage = "finished"
    /\ interpreter.scopes = <<Bindings({<<"r", 3>>, <<"q", 0>>, <<"n", -3>>})>>

\* scope outer is scope inner or one of its ancestors
Encloses(st, outer, inner) == outer \in ScopeChain(st, inner)

\* the scopes on the parent chain of scope s that bind name
BindingScopes(st, name, s) ==
    {c \in ScopeChain(st, s) : name \in DOMAIN st.scopes[c + 1].variables}

\* the binding of name in the scope of the parent chain of s that every other
\* binding scope of the chain encloses, NoneV if no scope of the chain binds
\* name
NearestBinding(st, name, s) ==
    IF BindingScopes(st, name, s) = {} THEN NoneV
    ELSE LET c == CHOOSE c \in BindingScopes(st, name, s) :
                     \A d \in BindingScopes(st, name, s) : Encloses(st, d, c) IN
         st.scopes[c + 1].variables[name]

\* C14: after any sequence of enter_scope and define_variable calls,
\* lookup_variable(name, s) is the binding of name in the nearest scope on
\* the parent chain from s (s first) up to the global scope, or none if no
\* scope of the chain binds name, and lookup_variable_in_scope_only(name, s)
\* is a binding only if s itself binds name; every parent chain ends at the
\* global scope.
C14_LookupNearestBinding ==
    LET st == resolver.symbols_table IN
    \A s \in ScopeIds(st) :
        /\ 0 \in ScopeChain(st, s)
        /\ \A name \in TableNames :
              /\ lookup_variable(st, name, s) = NearestBinding(st, name, s)
              /\ lookup_variable_in_scope_only(st, name, s) =
                    IF name \in DOMAIN st.scopes[s + 1].variables
                    THEN st.scopes[s + 1].variables[name]
                    ELSE NoneV

\* a chain of three scopes: the global scope binds a as Int and b as Bool,
\* its child binds a as Bool, and from the grandchild a is the child's Bool
\* and b the global Bool while the grandchild itself binds neither
C14_Witness ==
    LET st == resolver.symbols_table
        a == TId("a").value
        b == TId("b").value IN
    /\ stage = "symbols_table"
    /\ Len(st.scopes) = 3
    /\ st.scopes[2].parent = 0 /\ st.scopes[3].parent = 1
    /\ lookup_variable(st, a, 0) = VariableSymbol(a, "Int")
    /\ lookup_variable(st, a, 2) = VariableSymbol(a, "Bool")
    /\ lookup_variable(st, b, 2) = VariableSymbol(b, "Bool")
    /\ lookup_variable_in_scope_only(st, a, 2) = NoneV
    /\ lookup_variable_in_scope_only(st, b, 2) = NoneV

\* two sibling scopes: the binding of a in one is not seen from the other
C14_WitnessSibling ==
    LET st == resolver.symbols_table
        a == TId("a").value IN
    /\ stage = "symbols_table"
    /\ Len(st.scopes) = 3
    /\ st.scopes[2].parent = 0 /\ st.scopes[3].parent = 0
    /\ lookup_variable(st, a, 1) = VariableSymbol(a, "Int")
    /\ lookup_variable(st, a, 2) = NoneV

\* the input of lexer l from the first character that is not whitespace on
Remaining(l) ==
    LET rest == SubSeq(l.input, l.position + 1, Len(l.input))
        skipped == {n \in 0..Len(rest) : \A j \in 1..n : rest[j] = " "} IN
    SubSeq(rest, 1 + CHOOSE n \in skipped : \A m \in skipped : m <= n, Len(rest))

\* the spellings of the operators, and the characters that are digits,
\* letters, whitespace, parentheses or one-character operators
OperatorSpellings ==
    {<<"+">>, <<"-">>, <<"*">>, <<"/">>, <<"=", "=">>, <<"!", "=">>, <<"<">>,
     <<">">>, <<"<", "=">>, <<">", "=">>, <<"!">>}
KnownChars ==
    SeqToSet(DigitChars) \cup AlphabeticChars
    \cup {" ", "(", ")", "+", "-", "*", "/", "<", ">", "!"}

\* the operators that are a prefix of text
OperatorPrefixes(text) == {op \in OperatorSpellings : IsPrefix(op, text)}

\* the longest prefix of text made of characters that are not known
UnknownRun(text) ==
    LET runs == {n \in 0..Len(text) : \A j \in 1..n : text[j] \notin KnownChars} IN
    SubSeq(text, 1, CHOOSE n \in runs : \A m \in runs : m <= n)

\* text without its whitespace
RECURSIVE Squeezed(_)
Squeezed(text) ==
    IF text = <<>> THEN <<>>
    ELSE IF Head(text) = " " THEN Squeezed(Tail(text))
    ELSE <<Head(text)>> \o Squeezed(Tail(text))

\* the spellings of the tokens but the end-of-file token, one after the other
RECURSIVE Spelled(_)
Spelled(toks) ==
    IF toks = <<>> THEN <<>>
    ELSE IF Head(toks).kind = "EndOfFile" THEN Spelled(Tail(toks))
    ELSE Head(toks).value \o Spelled(Tail(toks))

\* the lexer hands out a token
TokenStep == stage = "lex" /\ tokens' # tokens

\* C15: at each position the lexer emits the longest operator of its table
\* that is a prefix of the remaining input (`<=` is one token, `<` followed
\* by another character is LessThan); when the characters consumed are only
\* a proper prefix of an operator (`=` not followed by `=`) they are
\* un-consumed, the `=` comes out in an Unknown token (alone when a known
\* character follows) and the lexing goes on right after that token: the
\* tokens spell the text without its whitespace.
C15_LongestOperatorMatch ==
    [][
        /\ TokenStep =>
              LET rest == Remaining(lexer)
                  token == Last(tokens')
                  consumed == lexer'.position - (Len(lexer.input) - Len(rest)) IN
              /\ tokens' = Append(tokens, token)
              /\ (OperatorPrefixes(rest) # {}) =>
                    /\ token.value \in OperatorPrefixes(rest)
                    /\ \A op \in OperatorPrefixes(rest) : Len(op) <= Len(token.value)
                    /\ token.kind = match_operator(token.value)
                    /\ token.kind \notin {NoKind, "Unknown"}
                    /\ consumed = Len(token.value)
              /\ (IsPrefix(<<"=">>, rest) /\ ~IsPrefix(<<"=", "=">>, rest)) =>
                    /\ token = Tok("Unknown", UnknownRun(rest))
                    /\ Head(token.value) = "="
                    /\ consumed = Len(token.value)
                    /\ (Len(rest) = 1 \/ rest[2] \in KnownChars) =>
                          token.value = <<"=">>
        /\ (stage' = "lexed") =>
              /\ Spelled(tokens') = Squeezed(lexer'.input)
              /\ Last(tokens') = TEof
              /\ \A j \in 1..(Len(tokens') - 1) : tokens'[j].kind # "EndOfFile"
        /\ (stage' = "lexed" /\ lexer'.input = Text_operators) =>
              tokens' = <<TPlus, TMinus, TStar, TSlash, TEqEq, TNotEq, TLe, TGe,
                          TLt, TGt, TEof>>
        /\ (stage' = "lexed" /\ lexer'.input = Text_mixed) =>
              tokens' = <<TLet, TId("x"), Tok("Unknown", <<"=">>), TNum(42), TPlus,
                          TId("y"), TEof>>
      ]_vars

\* `=<=` has been lexed as an Unknown `=` followed by the operator `<=`
C15_Witness ==
    /\ lexer.input = <<"=", "<", "=">>
    /\ stage = "lexed"
    /\ tokens = <<Tok("Unknown", <<"=">>), TLe, TEof>>

\* `<=>` has been lexed as `<=` and `>`, `<a` as LessThan and an identifier
C15_WitnessLongest ==
    /\ lexer.input = <<"<", "=", ">">>
    /\ stage = "lexed"
    /\ tokens = <<TLe, TGt, TEof>>

\* `let x = 42 + y` has been lexed with the `=` as an Unknown token
C15_WitnessMixed ==
    /\ lexer.input = Text_mixed
    /\ stage = "lexed"
    /\ tokens[3] = Tok("Unknown", <<"=">>)
    /\ tokens[4] = TNum(42)

\* Parser::parse has returned
ParseReturned == stage \in {"resolve", "compile_failed"}

\* C16: every recovery marker pushed on the parser's recovery-state stack is
\* popped exactly once: for every token stream, also one in which a
\* malformed block is never closed by an `end`, the recovery-state stack is
\* empty when parse returns.
C16_RecoveryStackBalanced ==
    ParseReturned => parser.recovery_states = <<>>

\* the number of tokens of kind kind in toks
RECURSIVE CountKind(_, _)
CountKind(toks, kind) ==
    IF toks = <<>> THEN 0
    ELSE (IF Head(toks).kind = kind THEN 1 ELSE 0) + CountKind(Tail(toks), kind)

\* the markers left when parse returns are those of failed blocks and stray
\* `else`s that no later `end` closed: a stream without a block keyword and
\* without `else` leaves none, and a stream leaves at most as many as it has
\* `if`s, `while`s, `for`s, `define`s and `else`s
C16_MarkersLeftByUnclosedBlocks ==
    ParseReturned =>
        Len(parser.recovery_states) <=
            CountKind(tokens, "IfKeyword") + CountKind(tokens, "WhileKeyword")
            + CountKind(tokens, "ForKeyword") + CountKind(tokens, "DefineKeyword")
            + CountKind(tokens, "ElseKeyword")

\* `if true then` has been parsed to the end of the stream: the marker of the
\* failed if-block is still on the stack
C16_UnclosedBlock ==
    /\ tokens = Program(<<TIf, TTrue, TThen>>)
    /\ stage = "compile_failed"
    /\ parser.recovery_states = <<"IfBlock">>

\* `if then end` has been parsed: the marker of the failed if-block was
\* popped by the `end`
C16_ClosedBlock ==
    /\ tokens = Program(<<TIf, TThen, TEnd>>)
    /\ stage = "compile_failed"
    /\ Len(diagnostic) = 1
    /\ parser.recovery_states = <<>>

\* the step of Parser::parse is the one that the result r of parse_statement
\* leads to
OutcomeOf(r) ==
    \/ AddStatement(r) /\ diagnostic' = diagnostic /\ stage' = "parse"
    \/ ReportAndRecover(r) /\ ast' = ast /\ stage' = "parse"
    \/ Break(r) /\ ast' = ast /\ diagnostic' = diagnostic /\ ParseReturns
    \/ Unwound(r) /\ stage' = "panicked"

\* the step reports diagnostic d for the token at the head of the stream,
\* consumes it and recovers from parser state p
ReportedFrom(d, p) ==
    /\ diagnostic' = Append(diagnostic, d)
    /\ ast' = ast
    /\ stage' = "parse"
    /\ parser' = recover(advance(p))

\* Parser::parse calls parse_statement with token kind at the head of the stream
AtStatement(kind) == stage = "parse" /\ peek(parser).kind = kind

MarkerStacks ==
    {<<>>, <<"IfBlock">>, <<"ElseBlock">>, <<"IfBlock", "ElseBlock">>,
     <<"ElseBlock", "IfBlock">>}

\* the parser at position k of the stream with markers on its recovery stack
ParserAt(k, markers) ==
    [pos |-> k, recovery_states |-> markers,
     consumed_tokens |-> [j \in 1..(k - 1) |-> tokens[j].kind]]

\* what parse_statement returns for an `end` or an `else` at the head of the
\* stream of parser state p: the result of the statement after it when it is
\* consumed silently, the diagnostic otherwise
EndOrElseAt(p) ==
    LET r == parse_statement(p)
        marker == IF p.recovery_states = <<>> THEN "None"
                  ELSE p.recovery_states[Len(p.recovery_states)]
        after_end == p.pos > 1 /\ tokens[p.pos - 1].kind = "EndKeyword" IN
    CASE peek(p).kind = "EndKeyword" /\ marker # "None" ->
           r = parse_statement(
                  [pos |-> p.pos + 1,
                   recovery_states |-> SubSeq(p.recovery_states, 1,
                                              Len(p.recovery_states) - 1),
                   consumed_tokens |-> Append(p.consumed_tokens, "EndKeyword")])
      [] peek(p).kind = "EndKeyword" /\ marker = "None" ->
           /\ r.status = "Err" /\ r.val = unexpected_end_token
           /\ r.p.pos = p.pos + 1 /\ r.p.recovery_states = <<>>
      [] peek(p).kind = "ElseKeyword" /\ marker = "IfBlock" ->
           r = parse_statement(
                  [pos |-> p.pos + 1,
                   recovery_states |-> p.recovery_states,
                   consumed_tokens |-> Append(p.consumed_tokens, "ElseKeyword")])
      [] peek(p).kind = "ElseKeyword" /\ marker # "IfBlock" ->
           /\ r.status = "Err"
           /\ r.val = IF after_end THEN unexpected_else_after_end
                      ELSE unexpected_else_token
           /\ r.p.pos = p.pos + 1
      [] OTHER -> TRUE

\* C17: an `end` met at statement position is consumed without a diagnostic
\* exactly when a recovery marker is on the recovery-state stack, and pops
\* that marker; with no marker it is reported as end-without-matching-block.
\* An `else` met at statement position is consumed silently exactly when the
\* top marker is that of a failed if-block; otherwise it is reported, as
\* else-after-end when the token consumed before it was `end` and as
\* else-without-if otherwise.  A silently consumed token leaves the step to
\* the statement that follows it.
C17_EndAndElseAtStatementPosition ==
    [][
        /\ (AtStatement("EndKeyword") /\ parser.recovery_states # <<>>) =>
              OutcomeOf(call("parse_statement",
                             <<advance(pop_recovery_state(parser))>>))
        /\ (AtStatement("EndKeyword") /\ parser.recovery_states = <<>>) =>
              ReportedFrom(unexpected_end_token, parser)
        /\ (AtStatement("ElseKeyword")
               /\ parser.recovery_states # <<>>
               /\ Last(parser.recovery_states) = "IfBlock") =>
              OutcomeOf(call("parse_statement", <<advance(parser)>>))
        /\ (AtStatement("ElseKeyword")
               /\ (parser.recovery_states = <<>>
                   \/ Last(parser.recovery_states) # "IfBlock")) =>
              ReportedFrom(IF parser.pos > 1 /\ tokens[parser.pos - 1] = TEnd
                           THEN unexpected_else_after_end
                           ELSE unexpected_else_token,
                           push_recovery_state(parser, "ElseBlock"))
        /\ (stage = "parse" /\ parser = Parser_new) =>
              \A k \in 1..Len(tokens), markers \in MarkerStacks :
                  EndOrElseAt(ParserAt(k, markers))
      ]_vars

\* `if then end end`: the first `end` has popped the marker of the failed
\* if-block without a diagnostic and the second one has been reported
C17_Witness ==
    /\ tokens = Program(<<TIf, TThen, TEnd, TEnd>>)
    /\ stage = "compile_failed"
    /\ OfKind(diagnostic, "UnexpectedEndToken") = <<unexpected_end_token>>
    /\ Len(diagnostic) = 2
    /\ parser.recovery_states = <<>>

\* `if then else end`: the `else` and the `end` of the failed if-block have
\* been consumed without a diagnostic of their own
C17_WitnessElse ==
    /\ tokens = Program(<<TIf, TThen, TElse, TEnd>>)
    /\ stage = "compile_failed"
    /\ Len(diagnostic) = 1
    /\ diagnostic[1].kind = "UnexpectedToken"
    /\ parser.recovery_states = <<>>

\* `if true then end else`: the `else` that follows the `end` of a
\* well-formed if-block has been reported as else-after-end
C17_WitnessElseAfterEnd ==
    /\ tokens = P_else_after_end
    /\ stage = "compile_failed"
    /\ Len(ast) = 1
    /\ diagnostic = <<unexpected_else_after_end>>

\* `else`: reported as else-without-if
C17_WitnessElseWithoutIf ==
    /\ tokens = Program(<<TElse>>)
    /\ stage = "compile_failed"
    /\ diagnostic = <<unexpected_else_token>>

\* a turn of Parser::parse in which parse_statement fails: the diagnostic is
\* recorded and the parser recovers
RecoveryStep == stage = "parse" /\ diagnostic' # diagnostic

\* the positions of the tokens discarded by the recovery of the step: from
\* where the failed parse_statement left the parser to where the step ends
Discarded == call("parse_statement", <<parser>>).p.pos .. (parser'.pos - 1)

\* the recovery of the step discards no token of a kind of sync and stops at
\* the end of the stream or at a token of a kind of sync
RecoveryStopsAt(sync) ==
    /\ \A k \in Discarded : tokens[k].kind \notin sync \cup {"EndOfFile"}
    /\ peek(parser').kind \in sync \cup {"EndOfFile"}

StatementKeywords ==
    {"LetKeyword", "SetKeyword", "IfKeyword", "WhileKeyword", "ForKeyword",
     "DefineKeyword", "ReturnKeyword"}
BlockTerminators == {"EndKeyword", "ElseKeyword"}

\* C18: after a statement-level parse failure the parser discards tokens and
\* stops at the first token that is end-of-stream, a statement-starting
\* keyword (let, set, if, while, for, define, return) or a block terminator
\* (end, else); no such token is discarded during recovery.
C18_RecoveryStopsAtStatementStart ==
    [][RecoveryStep => RecoveryStopsAt(StatementKeywords \cup BlockTerminators)]_vars

\* the recovery stops at the first token that is end-of-stream, a block
\* terminator or a statement-starting keyword other than return
C18_RecoveryStopsAtEndPoint ==
    [][RecoveryStep =>
          RecoveryStopsAt((StatementKeywords \ {"ReturnKeyword"})
                          \cup BlockTerminators)]_vars

\* `let x be return`: the declaration has failed at `return` and the recovery
\* has discarded the `return`, so no return statement is in the AST
C18_ReturnDiscarded ==
    /\ tokens = Program(<<TLet, TId("x"), TBe, TReturn>>)
    /\ stage = "compile_failed"
    /\ Len(diagnostic) = 1
    /\ diagnostic[1].found = TReturn.value
    /\ ast = <<>>

\* `let be true let`: the recovery has discarded `be true` and stopped at the
\* second `let`, which has then been parsed and reported on its own
C18_StopsAtKeyword ==
    /\ tokens = Program(<<TLet, TBe, TTrue, TLet>>)
    /\ stage = "parse"
    /\ Len(diagnostic) = 1
    /\ parser.pos = 4

\* the value of a literal or variable argument in the runtime scopes env: the
\* innermost binding of the variable
ValueIn(e, env) ==
    IF e.kind = "Number" THEN RuntimeValue_Number(e.value)
    ELSE env[InnermostBinding(env, e.name)][e.name]

\* call_function has evaluated the argument of its next parameter and binds
\* the parameter
BindingStep ==
    /\ stage = "interpret"
    /\ kont # <<>>
    /\ Top.op = "call_function"
    /\ Top.pc = 1
    /\ interpreter.accumulator # NoneV

\* call_function has run the body and leaves the call
CallReturnStep ==
    /\ stage = "interpret"
    /\ kont # <<>>
    /\ Top.op = "call_function"
    /\ Top.pc = 2

\* the scopes of the caller: all but the scope pushed for the call
CallerScopes == SubSeq(interpreter.scopes, 1, Len(interpreter.scopes) - 1)

\* C19: when a function with parameters p1..pn is called with arguments
\* e1..en, each pk is bound in the fresh call scope to the value that ek has
\* in the caller's environment at the call site: an argument that mentions a
\* variable whose name equals an earlier parameter reads the caller's
\* variable, not the parameter just bound; the call scope is popped when the
\* body finishes.
C19_ArgumentsInCallerEnvironment ==
    [][
        /\ (BindingStep /\ Head(Top.arguments).kind \in {"Number", "Variable"}) =>
              /\ interpreter.accumulator = ValueIn(Head(Top.arguments), CallerScopes)
              /\ Len(interpreter'.scopes) = Len(interpreter.scopes)
              /\ Last(interpreter'.scopes)[Head(Top.parameters)] =
                    ValueIn(Head(Top.arguments), CallerScopes)
              /\ SubSeq(interpreter'.scopes, 1, Len(interpreter.scopes) - 1) =
                    CallerScopes
        /\ CallReturnStep => interpreter'.scopes = CallerScopes
      ]_vars

\* C19 but for an argument that is a variable named as a parameter of the
\* call already bound, which reads that parameter
C19_ArgumentsAfterEarlierParameters ==
    [][
        /\ (BindingStep /\ Head(Top.arguments).kind \in {"Number", "Variable"}) =>
              /\ interpreter.accumulator =
                    ValueIn(Head(Top.arguments), interpreter.scopes)
              /\ Len(interpreter'.scopes) = Len(interpreter.scopes)
              /\ Last(interpreter'.scopes)[Head(Top.parameters)] =
                    ValueIn(Head(Top.arguments), interpreter.scopes)
              /\ SubSeq(interpreter'.scopes, 1, Len(interpreter.scopes) - 1) =
                    CallerScopes
        /\ CallReturnStep => interpreter'.scopes = CallerScopes
      ]_vars

\* `f(5, a)` with parameters a, b and the caller's a = 1: in the body the call
\* scope binds b to 5, the value of the parameter a
C19_ParameterRead ==
    /\ tokens = P_argument_named_as_parameter
    /\ stage = "interpret"
    /\ Len(interpreter.scopes) = 2
    /\ interpreter.scopes[1] = Bindings({<<"a", 1>>})
    /\ interpreter.scopes[2] = Bindings({<<"a", 5>>, <<"b", 5>>})

\* `f(a, a)` with parameters p, q from a block whose a = 2: the call scope
\* binds p and q to 2
C19_CallerRead ==
    /\ tokens = P_arguments_in_block
    /\ stage = "interpret"
    /\ Len(interpreter.scopes) = 3
    /\ interpreter.scopes[3] = Bindings({<<"p", 2>>, <<"q", 2>>})

\* the values that name has in the runtime scopes above the global scope
LocalValues(name) ==
    {interpreter.scopes[j][name] :
        j \in {k \in 2..Len(interpreter.scopes) : name \in DOMAIN interpreter.scopes[k]}}

\* the value of name in the global scope when the run has finished
FinishedWithGlobal(name, n) ==
    stage = "finished" => interpreter.scopes[1][name] = RuntimeValue_Number(n)

\* C20: the interpreter is lexically scoped: while a function body executes,
\* a variable reference or assignment inside it resolves only to the
\* function's own parameters and locals or to global variables, never to a
\* same-named local variable of the block that called the function.  With
\* the global x = 1 and f called from a block whose own x = 2: `set x to 10`
\* in f leaves the block's x at 2 and makes the global x 10, and `let r be x`
\* in f binds r to 1.
C20_LexicalScoping ==
    LET x == TId("x").value
        r == TId("r").value IN
    /\ (tokens = P_global_from_function) =>
          /\ stage \notin {"compile_failed", "panicked"}
          /\ FinishedWithGlobal(x, 10)
    /\ (tokens = P_assignment_in_function) =>
          /\ stage \notin {"compile_failed", "panicked"}
          /\ LocalValues(x) \subseteq {RuntimeValue_Number(2)}
          /\ FinishedWithGlobal(x, 10)
    /\ (tokens = P_reference_in_function) =>
          /\ stage \notin {"compile_failed", "panicked"}
          /\ LocalValues(r) \subseteq {RuntimeValue_Number(1)}

\* C20 for the function called where no block has a local x
C20_GlobalFromFunction ==
    (tokens = P_global_from_function) =>
        /\ stage \notin {"compile_failed", "panicked"}
        /\ FinishedWithGlobal(TId("x").value, 10)

\* `set x to 10` in f, called from the block whose x is 2, has written the
\* block's x; the global x is still 1
C20_CallerLocalAssigned ==
    /\ tokens = P_assignment_in_function
    /\ stage = "interpret"
    /\ Len(interpreter.scopes) >= 2
    /\ interpreter.scopes[1] = Bindings({<<"x", 1>>})
    /\ interpreter.scopes[2] = Bindings({<<"x", 10>>})

\* `let r be x` in f, called from the block whose x is 2, has bound r to 2
C20_CallerLocalRead ==
    /\ tokens = P_reference_in_function
    /\ stage = "interpret"
    /\ Len(interpreter.scopes) >= 3
    /\ interpreter.scopes[1] = Bindings({<<"x", 1>>})
    /\ interpreter.scopes[2] = Bindings({<<"x", 2>>})
    /\ Last(interpreter.scopes) = Bindings({<<"r", 2>>})

\* the function called from the top level has written the global x
C20_GlobalAssigned ==
    /\ tokens = P_global_from_function
    /\ stage = "finished"
    /\ interpreter.scopes = <<Bindings({<<"x", 10>>})>>

--------------------------------------------------------------------------

\* the function definitions of stmts at any depth (in blocks, branches, loop
\* bodies and function bodies), read off the program text
RECURSIVE FunctionDefinitions(_)
FunctionDefinitions(stmts) ==
    IF stmts = <<>> THEN {}
    ELSE LET s == Head(stmts)
             inner(b) == IF b = NoneV THEN {} ELSE FunctionDefinitions(<<b>>)
             rest == FunctionDefinitions(Tail(stmts)) IN
         CASE s.kind = "FunctionDefinition" -> {s} \cup inner(s.body) \cup rest
           [] s.kind = "BlockStatement" -> FunctionDefinitions(s.statements) \cup rest
           [] s.kind = "IfStatement" ->
                inner(s.then_branch) \cup inner(s.else_branch) \cup rest
           [] s.kind \in {"WhileStatement", "ForStatement"} -> inner(s.body) \cup rest
           [] OTHER -> rest

\* the interpreter runs or has run the program
Interpreting == stage \in {"interpret", "finished"}

\* the function table holds, for the name of d, a definition of the program
\* with that name
InFunctionTable(d) ==
    /\ d.name \in DOMAIN interpreter.functions
    /\ \E e \in FunctionDefinitions(ast) :
          /\ e.name = d.name
          /\ interpreter.functions[d.name] =
                [parameters |-> e.arguments, body |-> e.body]

\* C21: before the first statement executes, the interpreter's function
\* table contains every function definition of the program, so a call
\* executes the body of the named function wherever in the program the
\* definition is placed: with g defined as `set x to 5` at the top level, in
\* an if-block or in the body of another function, the program that calls g
\* ends with x = 5.
C21_FunctionTableComplete ==
    /\ Interpreting => \A d \in FunctionDefinitions(ast) : InFunctionTable(d)
    /\ EndsWithGlobal(P_call_after_definition, "x", 5)
    /\ EndsWithGlobal(P_function_in_block, "x", 5)
    /\ EndsWithGlobal(P_function_in_function, "x", 5)

\* C21 for the definitions that are statements of the program itself: the
\* table holds exactly their names, each with the last definition of the
\* name, from the first step of the interpreter on
C21_TopLevelFunctionsCollected ==
    /\ Interpreting =>
          LET defs == {k \in 1..Len(ast) : ast[k].kind = "FunctionDefinition"} IN
          /\ DOMAIN interpreter.functions = {ast[k].name : k \in defs}
          /\ \A k \in defs :
                (\A j \in defs : ast[j].name = ast[k].name => j <= k)
                => interpreter.functions[ast[k].name] =
                      [parameters |-> ast[k].arguments, body |-> ast[k].body]
    /\ EndsWithGlobal(P_call_after_definition, "x", 5)
    /\ EndsWithGlobal(P_function_defined_twice, "x", 7)

\* g is defined in an if-block: the resolver accepts the call, the
\* interpreter finds no g and the call does nothing
C21_NestedDefinitionNotCalled ==
    /\ tokens = P_function_in_block
    /\ stage = "finished"
    /\ interpreter.functions = EmptyMap
    /\ interpreter.scopes = <<Bindings({<<"x", 1>>})>>

\* the call of the top-level g has executed its body
C21_TopLevelCalled ==
    /\ tokens = P_call_after_definition
    /\ stage = "finished"
    /\ interpreter.scopes = <<Bindings({<<"x", 5>>})>>

\* a call placed before the definition does not reach the interpreter: the
\* resolver registers a function when it visits the definition
C21_ForwardCallRejected ==
    /\ tokens = P_forward_call
    /\ stage = "compile_failed"
    /\ OfKind(resolver.diagnostics, "UndefinedFunction") # <<>>

--------------------------------------------------------------------------

VarD == Variable(TId("d").value)
VarE == Variable(TId("e").value)

\* C22: binary operators of the same precedence band associate to the left:
\* for op1, op2 of one band `a op1 b op2 c` parses as
\* BinaryOperation(BinaryOperation(a, op1, b), op2, c), and longer chains
\* nest to the left in the same way: `a op1 b op2 c op3 d` is
\* op3(op2(op1(a, b), c), d) for every three operators of one band, and
\* `a op b op c op d op e` is op(op(op(op(a, b), c), d), e).
C22_LeftAssociative ==
    stage # "parse" =>
    /\ \A band \in OperatorBands : \A op1 \in band, op2 \in band :
          /\ (tokens = P_chain(op1, op2)) =>
                ParsedAs(Operation(Operation(VarA, op1, VarB), op2, VarC))
          /\ \A op3 \in band :
                (tokens = P_chain_of_three(op1, op2, op3)) =>
                   ParsedAs(Operation(Operation(Operation(VarA, op1, VarB),
                                                op2, VarC), op3, VarD))
    /\ \A op \in BinaryOperatorTokens :
          (tokens = P_chain_of_four(op)) =>
             ParsedAs(Operation(Operation(Operation(Operation(VarA, op, VarB),
                                                    op, VarC), op, VarD),
                                op, VarE))

\* `let x be a - b + c` has been parsed with the difference as the left
\* operand of the sum
C22_Witness ==
    /\ tokens = P_chain(TMinus, TPlus)
    /\ stage # "parse"
    /\ ast = <<VariableDeclaration(TId("x").value,
                  BinaryOperation(BinaryOperation(VarA, "Subtract", VarB),
                                  "Add", VarC))>>

\* `let x be a / b * c % d` has been parsed nested to the left
C22_WitnessChain ==
    /\ tokens = P_chain_of_three(TSlash, TStar, TPercent)
    /\ stage # "parse"
    /\ ast = <<VariableDeclaration(TId("x").value,
                  BinaryOperation(
                      BinaryOperation(BinaryOperation(VarA, "Divide", VarB),
                                      "Multiply", VarC),
                      "Modulus", VarD))>>

--------------------------------------------------------------------------

\* the resolver is about to visit a call of the function whose body it is in
SelfCallStep ==
    /\ stage = "resolve" /\ kont # <<>>
    /\ Top.op \in {"stmt", "expr"} /\ Top.node.kind = "FunctionCall"
    /\ \E j \in 1..Len(Rest) :
          /\ Rest[j].op = "visit_function_definition"
          /\ Rest[j].name = Top.node.function_name

\* the innermost enclosing definition of the called name
OwnDefinition ==
    Rest[CHOOSE j \in 1..Len(Rest) :
            /\ Rest[j].op = "visit_function_definition"
            /\ Rest[j].name = Top.node.function_name
            /\ \A i \in 1..(j - 1) :
                  ~(Rest[i].op = "visit_function_definition"
                    /\ Rest[i].name = Top.node.function_name)]

\* C23: the resolver registers a function's name and parameter list before
\* it visits the function's body: the step that enters a definition leaves
\* the name registered with the definition's parameters and the body as the
\* next thing to visit, and the visit of a call to the function from inside
\* its own body reports no undefined-function diagnostic and reports an
\* argument-count mismatch exactly when the number of arguments differs from
\* the number of the function's own parameters.
C23_RegisteredBeforeBody ==
    [][
       /\ Visiting("resolve", "stmt", "FunctionDefinition") =>
             /\ lookup_function(resolver'.symbols_table, Top.node.name)
                  = FunctionSymbol(Top.node.name, Top.node.arguments)
             /\ Head(kont') = StmtFrame(Top.node.body)
       /\ SelfCallStep =>
             resolver'.diagnostics =
                IF Len(OwnDefinition.arguments) # Len(Top.node.arguments)
                THEN Append(resolver.diagnostics,
                            function_arguments_mismatch(
                                Top.node.function_name,
                                Len(OwnDefinition.arguments),
                                Len(Top.node.arguments)))
                ELSE resolver.diagnostics
      ]_vars

\* `define function f with a as f(a) end` has been resolved without a
\* diagnostic
C23_Witness ==
    /\ tokens = P_recursion
    /\ stage \in {"interpret", "finished"}
    /\ resolver.diagnostics = <<>>

\* the recursive call with two arguments for one parameter has been reported
C23_WitnessMismatch ==
    /\ tokens = P_recursion_mismatch
    /\ stage = "compile_failed"
    /\ resolver.diagnostics
         = <<function_arguments_mismatch(TId("f").value, 1, 2)>>

\* the resolver stands at a recursive call inside an if-block of the body
C23_WitnessInBlock ==
    /\ tokens = P_recursion_in_block
    /\ SelfCallStep
    /\ Len(kont) >= 4

--------------------------------------------------------------------------

\* sample runtime values of a resolved type (no zero divisor, no overflow)
ValuesOf(type) ==
    IF type = "Int" THEN {RuntimeValue_Number(n) : n \in {-2, 1, 3}}
    ELSE {RuntimeValue_Bool(b) : b \in BOOLEAN}

\* the resolved type of a runtime value
TypeOf(value) == IF value.kind = "Number" THEN "Int" ELSE "Bool"

ResolvedTypes == {"Int", "Bool"}

\* the step adds no diagnostic
Accepted == resolver'.diagnostics = resolver.diagnostics

\* the resolver's step for a binary operation of operators agrees with the
\* operator's native function on the operand types of the step
BinaryAgreement(operators) ==
    (/\ Resuming("resolve", "visit_binary_operation")
     /\ Top.pc = 2
     /\ Top.node.operator \in operators
     /\ Top.left \in ResolvedTypes
     /\ resolver.type_accumulator \in ResolvedTypes) =>
        \A l \in ValuesOf(Top.left), r \in ValuesOf(resolver.type_accumulator) :
            LET res == binary_operator_function(Top.node.operator, l, r) IN
            /\ Accepted <=> res.status = "Ok"
            /\ Accepted => TypeOf(res.val) = resolver'.type_accumulator

\* the same for a unary operation
UnaryAgreement ==
    (/\ Resuming("resolve", "visit_unary_operation")
     /\ resolver.type_accumulator \in ResolvedTypes) =>
        \A v \in ValuesOf(resolver.type_accumulator) :
            LET res == unary_operator_function(Top.node.operator, v) IN
            /\ Accepted <=> res.status = "Ok"
            /\ Accepted => TypeOf(res.val) = resolver'.type_accumulator

AllBinaryOperators ==
    {BinaryOperator_try_from(token.kind) : token \in BinaryOperatorTokens}

\* a comparison of two Int operands as the condition of an if or a while is
\* accepted by the resolver
ComparisonConditionAccepted(operator_tokens) ==
    \A op \in operator_tokens :
        tokens \in {P_if_comparison(op), P_while_comparison(op)} =>
            stage' # "compile_failed"

\* C24: the resolver's operator-type table and the interpreter's native
\* operators agree: for every binary or unary operator and every combination
\* of Int/Bool operand types, the resolver infers a resolved type T without a
\* diagnostic exactly when the interpreter's operator succeeds on operands
\* of those types, and the value it then produces has type T; every
\* comparison of two Int operands is inferred as Bool, so it is accepted as
\* an if/while condition.
C24_OperatorTablesAgree ==
    [][
       /\ BinaryAgreement(AllBinaryOperators)
       /\ UnaryAgreement
       /\ ComparisonConditionAccepted(ComparisonTokens)
      ]_vars

\* C24 for the arithmetic and the logical operators, the unary operators, and
\* == as a condition
C24_ArithmeticAndLogicAgree ==
    [][
       /\ BinaryAgreement({"Add", "Subtract", "Multiply", "Divide", "Modulus",
                           "And", "Or"})
       /\ UnaryAgreement
       /\ ComparisonConditionAccepted({TEqEq})
      ]_vars

\* `let r be 6 < 3`: the resolver has given r the type Int and the
\* interpreter has bound it to a Bool
C24_ComparisonInferredInt ==
    LET r == TId("r").value IN
    /\ tokens = P_binary_literals(E_num(6), TLt, E_num(3))
    /\ stage = "finished"
    /\ resolver.symbols_table.scopes[1].variables[r].sym_type = "Int"
    /\ interpreter.scopes[1][r] = RuntimeValue_Bool(FALSE)

\* `if 1 < 2 then let x be 1 end` has been rejected: the condition is Int
C24_ConditionRejected ==
    /\ tokens = P_if_comparison(TLt)
    /\ stage = "compile_failed"
    /\ resolver.diagnostics = <<expression_type_mismatch("Bool", "Int")>>

\* `let r be 6 == false` has been accepted by the resolver and the
\* interpreter's eq has failed
C24_MixedEqualityPanics ==
    /\ tokens = P_binary_literals(E_num(6), TEqEq, EFalse)
    /\ stage = "panicked"
    /\ panic = "Error: invalid operation"

\* `let r be 6 + 3` has type Int and the value 9
C24_SumAgrees ==
    LET r == TId("r").value IN
    /\ tokens = P_binary_literals(E_num(6), TPlus, E_num(3))
    /\ stage = "finished"
    /\ resolver.symbols_table.scopes[1].variables[r].sym_type = "Int"
    /\ interpreter.scopes[1][r] = RuntimeValue_Number(9)

--------------------------------------------------------------------------

\* whether expression e is or contains a function call
RECURSIVE CallInExpression(_)
CallInExpression(e) ==
    CASE e = NoneV -> FALSE
      [] e.kind = "FunctionCall" -> TRUE
      [] e.kind = "BinaryOperation" ->
           CallInExpression(e.left) \/ CallInExpression(e.right)
      [] e.kind = "UnaryOperation" -> CallInExpression(e.operand)
      [] e.kind = "Grouped" -> CallInExpression(e.expression)
      [] OTHER -> FALSE

\* whether a function call is used for its value somewhere in stmts: in an
\* initializer, an assigned value, a condition, a bound of a for loop or an
\* argument
RECURSIVE CallUsedAsValue(_)
CallUsedAsValue(stmts) ==
    IF stmts = <<>> THEN FALSE
    ELSE LET s == Head(stmts)
             inner(b) == IF b = NoneV THEN FALSE ELSE CallUsedAsValue(<<b>>) IN
         \/ CallUsedAsValue(Tail(stmts))
         \/ CASE s.kind \in {"VariableDeclaration", "VariableAssignment"} ->
                   CallInExpression(s.value)
              [] s.kind = "BlockStatement" -> CallUsedAsValue(s.statements)
              [] s.kind = "IfStatement" ->
                   \/ CallInExpression(s.condition)
                   \/ inner(s.then_branch) \/ inner(s.else_branch)
              [] s.kind = "WhileStatement" ->
                   CallInExpression(s.condition) \/ inner(s.body)
              [] s.kind = "ForStatement" ->
                   \/ CallInExpression(s.start) \/ CallInExpression(s.end)
                   \/ CallInExpression(s.step) \/ inner(s.body)
              [] s.kind = "FunctionDefinition" -> inner(s.body)
              [] s.kind = "FunctionCall" ->
                   \E j \in 1..Len(s.arguments) : CallInExpression(s.arguments[j])
              [] s.kind = "ReturnStatement" -> CallInExpression(s.expression)
              [] OTHER -> FALSE

\* the interpreter's step returns from the visit of a literal, a variable or
\* an operation
OperationVisited ==
    /\ stage = "interpret" /\ kont # <<>> /\ stage' = "interpret"
    /\ \/ Top.op = "expr" /\ Top.node.kind \in {"Number", "Boolean", "Variable"}
       \/ Top.op = "visit_binary_operation" /\ Top.pc = 2
       \/ Top.op = "visit_unary_operation"

\* C25: whenever the interpreter has finished visiting an expression of a
\* program accepted by the resolver, the accumulator holds a value, so
\* get_accumulator_value never fails with "Expression unevaluated"; this
\* includes function-call expressions whose body ends with a declaration or
\* an assignment or contains no return.
C25_AccumulatorHoldsValue == panic # "Expression unevaluated"

\* C25 for the expressions that are not calls: the visit of a literal, a
\* variable or an operation leaves a value in the accumulator, and a program
\* that uses no call for its value never fails with "Expression unevaluated"
C25_OperationsLeaveValue ==
    [][
       /\ OperationVisited => interpreter'.accumulator # NoneV
       /\ panic' = "Expression unevaluated" => CallUsedAsValue(ast)
      ]_vars

\* `let x be g()` with the body of g ending in a declaration: the call has
\* returned with an empty accumulator and the declaration has panicked
C25_CallLeavesNoValue ==
    /\ tokens = P_call_value_after_declaration
    /\ stage = "panicked"
    /\ panic = "Expression unevaluated"
    /\ resolver.diagnostics = <<>>
    /\ Len(interpreter.scopes) = 1

\* `let x be 1 + g()`: the panic is in the addition
C25_CallOperandLeavesNoValue ==
    /\ tokens = P_call_value_operand
    /\ stage = "panicked"
    /\ panic = "Expression unevaluated"
    /\ Top.op = "visit_binary_operation"

\* a call statement of the same kind of function has run to the end
C25_CallStatementFinishes ==
    /\ tokens = P_call_after_definition
    /\ stage = "finished"
    /\ interpreter.accumulator = NoneV

--------------------------------------------------------------------------

\* the activations on the control stack k that have pushed a runtime scope
\* and not yet popped it: a block between its enter and exit hooks, a for
\* loop inside its loop, a function call
RECURSIVE OpenScopes(_)
OpenScopes(k) ==
    IF k = <<>> THEN 0
    ELSE (IF \/ Head(k).op \in {"block_exit", "call_function"}
             \/ Head(k).op = "visit_for_statement" /\ Head(k).pc = 4
          THEN 1 ELSE 0)
         + OpenScopes(Tail(k))

\* C26: after the interpreter executes any statement to completion (block,
\* if, while, for, function call), the runtime scope stack has the same
\* depth as before the statement; the global scope is never popped, and when
\* the program finishes exactly the global scope remains.  At every point of
\* the run the stack holds the global scope and one scope for each block,
\* for loop and call that is being executed, so when what is left to execute
\* is again what followed a statement, the depth is what it was before it.
C26_ScopeStackBalanced ==
    stage \in {"interpret", "finished"} =>
        /\ Len(interpreter.scopes) = 1 + OpenScopes(kont)
        /\ stage = "finished" => Len(interpreter.scopes) = 1

\* the run is inside the if-block of the for loop of f, called from the body
\* of the while loop: seven scopes
C26_Witness ==
    /\ tokens = P_nested_scopes
    /\ stage = "interpret"
    /\ Len(interpreter.scopes) = 7

\* the program with nested blocks, loops and calls has finished with the
\* global scope alone
C26_WitnessFinished ==
    /\ tokens = P_nested_scopes
    /\ stage = "finished"
    /\ interpreter.scopes = <<Bindings({<<"n", 4>>})>>

--------------------------------------------------------------------------

\* the activations on the control stack k that have entered a scope of the
\* symbols table and not yet left it: a block between its enter and exit
\* hooks, a for statement in its body, a function definition in its body
RECURSIVE EnteredScopes(_)
EnteredScopes(k) ==
    IF k = <<>> THEN 0
    ELSE (IF \/ Head(k).op \in {"block_exit", "visit_function_definition"}
             \/ Head(k).op = "visit_for_statement" /\ Head(k).pc = 4
          THEN 1 ELSE 0)
         + EnteredScopes(Tail(k))

\* the blocks on the control stack k between their enter and exit hooks
RECURSIVE EnteredBlocks(_)
EnteredBlocks(k) ==
    IF k = <<>> THEN 0
    ELSE (IF Head(k).op = "block_exit" THEN 1 ELSE 0) + EnteredBlocks(Tail(k))

\* resolver r with control stack k is as deep in scopes and blocks as the
\* statements it is inside of
ResolverBalanced(r, k) ==
    /\ Cardinality(ScopeChain(r.symbols_table, r.current_scope_id))
         = 1 + EnteredScopes(k)
    /\ Len(r.block_type_stack) = EnteredBlocks(k)

\* the resolver's step leaves a scope
ScopeExitStep ==
    /\ stage = "resolve" /\ kont # <<>>
    /\ \/ Top.op \in {"block_exit", "visit_function_definition"}
       \/ Top.op = "visit_for_statement" /\ Top.pc = 4

\* C27: after the resolver visits any statement, its current scope id and
\* its block-kind stack are the same as before the statement; exit_scope is
\* never called while the current scope is the global scope (so it never
\* panics), and at the end of resolution the current scope is scope 0 and
\* the block-kind stack is empty.  Throughout the traversal the current
\* scope has one ancestor, and the block-kind stack one entry, for each
\* statement being visited that has entered a scope or a block; a scope is
\* entered as a child of the current scope and left to its parent, so when
\* what is left to visit is again what followed a statement, the resolver is
\* back in the scope and with the stack it had before.
C27_ResolverScopesBalanced ==
    [][
       /\ stage' = "resolve" => ResolverBalanced(resolver', kont')
       /\ ScopeExitStep =>
             /\ resolver.current_scope_id # 0
             /\ panic' = NoPanic
             /\ resolver'.current_scope_id
                  = resolver.symbols_table.scopes[resolver.current_scope_id + 1].parent
             /\ kont' = Rest
       /\ ResolutionEnds =>
             /\ resolver.current_scope_id = 0
             /\ resolver.block_type_stack = <<>>
             /\ resolver' = resolver
      ]_vars

\* the resolver is in the if-block of the for loop of f: five scopes below
\* the global one and three block kinds
C27_Witness ==
    /\ tokens = P_nested_scopes
    /\ stage = "resolve"
    /\ resolver.current_scope_id = 5
    /\ resolver.block_type_stack = <<"FunctionBlock", "ForBlock", "IfBlock">>

\* the resolution of that program has ended in the global scope
C27_WitnessEnd ==
    /\ tokens = P_nested_scopes
    /\ stage = "interpret"
    /\ resolver.current_scope_id = 0
    /\ resolver.block_type_stack = <<>>
    /\ Len(resolver.symbols_table.scopes) = 9

\* the resolver is in the else-block of an `else if`
C27_WitnessElseIf ==
    /\ tokens = P_else_if
    /\ stage = "resolve"
    /\ resolver.block_type_stack = <<"ElseBlock">>
    /\ resolver.current_scope_id = 3

--------------------------------------------------------------------------

\* every number literal of the stream fits the integer width
LiteralsInRange ==
    \A j \in 1..Len(tokens) :
        tokens[j].kind = "Number" => parse_i64(tokens[j].value, 0) >= 0

\* parse_statement called at position k with markers on the recovery stack
\* returns without a panic, having consumed at least one token and not the
\* end-of-file token
StatementConsumes(k, markers) ==
    LET r == parse_statement(ParserAt(k, markers)) IN
    /\ r.status \in {"Ok", "Err"}
    /\ r.p.pos > k
    /\ r.p.pos <= Len(tokens)

\* C28: parse terminates without panicking for every finite token stream
\* that ends with exactly one end-of-stream token (number literals within
\* the integer range): no turn of the loop of parse panics or consumes the
\* end-of-stream token, every turn that does not end the loop leaves the
\* parser further in the stream, so the loop ends after at most as many
\* turns as the stream has tokens, and every call of parse_statement that is
\* not at end-of-stream, at any position and with any recovery stack,
\* consumes at least one token.
C28_ParseTerminates ==
    [][
       (LiteralsInRange /\ stage = "parse") =>
          /\ stage' # "panicked"
          /\ parser'.pos <= Len(tokens)
          /\ stage' = "parse" => parser'.pos > parser.pos
          /\ parser = Parser_new =>
                \A k \in 1..(Len(tokens) - 1) : \A markers \in MarkerStacks :
                    StatementConsumes(k, markers)
      ]_vars

\* the loop of parse has returned with diagnostics at the end-of-file token
\* of `let x be`, which is not consumed
C28_Witness ==
    /\ tokens = Program(<<TLet, TId("x"), TBe>>)
    /\ stage = "compile_failed"
    /\ Len(diagnostic) = 1
    /\ parser.pos = Len(tokens)

\* a well-formed program with nested blocks has been parsed to the
\* end-of-file token
C28_WitnessProgram ==
    /\ tokens = P_nested_scopes
    /\ stage = "resolve"
    /\ parser.pos = Len(tokens)
    /\ Len(ast) = 4

\* an unknown token and a `let`: two turns, each consuming one token
C28_WitnessUnknown ==
    /\ tokens = Program(<<TUnknown, TLet>>)
    /\ stage = "compile_failed"
    /\ Len(diagnostic) = 2
    /\ parser.pos = 3

\* the body entries of the trace have pairwise different values of the loop
\* variable
DistinctValues(t) ==
    \A j, m \in 1..Len(t) : j # m => t[j].value # t[m].value

\* C29: every for loop whose body terminates and does not assign the loop
\* variable terminates, for every start, end and step, a step of zero and
\* negative steps included. The body of the loop leaves the loop variable
\* alone, so the value at one body entry fixes the value at the next; a loop
\* that terminates therefore never enters its body twice with the same value.
C29_ForLoopTerminates ==
    \A s \in StepStarts, e \in StepEnds, k \in StepValues :
        tokens = ForStepProgram(s, e, k) => DistinctValues(trace)

\* C29 for the steps other than zero: the loop never enters its body twice
\* with the same value
C29_NonZeroStepAdvances ==
    \A s \in StepStarts, e \in StepEnds, k \in StepValues \ {0} :
        tokens = ForStepProgram(s, e, k) => DistinctValues(trace)

\* `for i from 1 to 3 step 0` has entered its body MaxTrace times, each time
\* with i = 1, and is at the head of the loop again
C29_StepZeroRepeats ==
    /\ tokens = ForStepProgram(1, 3, 0)
    /\ stage = "interpret"
    /\ Len(trace) = MaxTrace
    /\ \A j \in 1..Len(trace) : trace[j].value = RuntimeValue_Number(1)

\* a loop with step 0 whose start is above its end finishes without entering
\* its body
C29_StepZeroAboveEnd ==
    /\ tokens = ForStepProgram(3, 0, 0)
    /\ stage = "finished"
    /\ trace = <<>>

\* `for i from IntMin + 1 to 3 step -1` runs down to the smallest integer and
\* panics in the addition, in a build with overflow checks
C29_NegativeStepPanics ==
    /\ tokens = ForStepProgram(IntMin + 1, 3, -1)
    /\ overflow_checks
    /\ stage = "panicked"
    /\ Len(trace) = 2

\* the same loop in a build without overflow checks wraps to the largest
\* integer, which is above the end, and finishes
C29_NegativeStepWraps ==
    /\ tokens = ForStepProgram(IntMin + 1, 3, -1)
    /\ ~overflow_checks
    /\ stage = "finished"
    /\ Len(trace) = 2

\* `for i from 1 to 3 step -1` runs down from 1 and is still looping after
\* MaxTrace body entries
C29_NegativeStepRunsDown ==
    /\ tokens = ForStepProgram(1, 3, -1)
    /\ Len(trace) = MaxTrace
    /\ trace[MaxTrace].value = RuntimeValue_Number(2 - MaxTrace)

\* the step of `let x be e` that follows the evaluation of e
DeclarationStep ==
    /\ stage = "interpret"
    /\ kont # <<>>
    /\ Top.op = "visit_variable_declaration"
    /\ stage' = "interpret"

\* the step that leaves a block
BlockExitStep ==
    /\ stage = "interpret"
    /\ kont # <<>>
    /\ Top.op = "block_exit"

\* C30: a declaration `let x` executed inside a block binds x only in the
\* block's own runtime scope, the innermost one: the step adds or overwrites
\* x there and leaves every enclosing scope as it was; leaving the block
\* removes that scope and nothing else; and between the two an enclosing scope
\* changes only through an assignment to a name that no scope inside it binds,
\* so the outer x keeps its value unless it was assigned before the inner
\* declaration.
C30_DeclarationBindsInBlockScope ==
    [][
       stage = "interpret" =>
          LET old == interpreter.scopes
              new == interpreter'.scopes
              top == Len(old) IN
          /\ DeclarationStep =>
                /\ top >= 1
                /\ Len(new) = top
                /\ \A j \in 1..(top - 1) : new[j] = old[j]
                /\ DOMAIN new[top] = DOMAIN old[top] \cup {Top.name}
                /\ new[top][Top.name] = interpreter.accumulator
                /\ \A name \in DOMAIN old[top] \ {Top.name} :
                      new[top][name] = old[top][name]
          /\ BlockExitStep => new = SubSeq(old, 1, top - 1)
          /\ \A j \in 1..(top - 1) :
                (j <= Len(new) /\ new[j] # old[j]) =>
                   /\ AssignmentStep
                   /\ j = InnermostBinding(old, Top.name)
          /\ (stage' = "finished" /\ tokens = P_shadow) =>
                new = <<Bindings({<<"x", 1>>})>>
          /\ (stage' = "finished" /\ tokens = P_shadow_after_assignment) =>
                new = <<Bindings({<<"x", 2>>, <<"y", 2>>})>>
          /\ (stage' = "finished" /\ tokens = P_shadow_twice) =>
                new = <<Bindings({<<"x", 1>>})>>
          /\ (stage' = "finished" /\ tokens = P_shadow_in_loop) =>
                new = <<Bindings({<<"x", 2>>})>>
          /\ (stage' = "finished" /\ tokens = P_shadow_in_function) =>
                new = <<Bindings({<<"x", 1>>})>>
          /\ (stage' = "finished" /\ tokens = P_declaration_after_block) =>
                new = <<Bindings({<<"x", 2>>})>>
      ]_vars

\* inside the if-block of P_shadow_after_assignment, `let x be 3` has bound x
\* in the block's scope; the global x holds the 2 assigned before it
C30_Witness ==
    /\ tokens = P_shadow_after_assignment
    /\ stage = "interpret"
    /\ interpreter.scopes = <<Bindings({<<"x", 2>>}), Bindings({<<"x", 3>>})>>

\* the run of P_shadow_after_assignment has ended: the block is gone and
\* `let y be x` has read the outer x
C30_WitnessAfterBlock ==
    /\ tokens = P_shadow_after_assignment
    /\ stage = "finished"
    /\ interpreter.scopes = <<Bindings({<<"x", 2>>, <<"y", 2>>})>>

\* in P_shadow_twice the inner block has exited and the assignment has
\* written 7 to the x of the middle block
C30_WitnessNested ==
    /\ tokens = P_shadow_twice
    /\ stage = "interpret"
    /\ interpreter.scopes = <<Bindings({<<"x", 1>>}), Bindings({<<"x", 7>>})>>

\* in P_shadow_in_function the body of f, called from inside the if-block, has
\* bound its own x above the scopes of the block and of the call
C30_WitnessInFunction ==
    /\ tokens = P_shadow_in_function
    /\ stage = "interpret"
    /\ Len(interpreter.scopes) = 4
    /\ interpreter.scopes[1] = Bindings({<<"x", 1>>})
    /\ interpreter.scopes[4] = Bindings({<<"x", 2>>})

====
